---- MODULE Spec2Model ----
(***************************************************************************)
(* A model of bal's DataObject (src/bal/data_object.py) over the DataModel *)
(* variants of src/bal/data_model.py.                                      *)
(*                                                                         *)
(* The tree of data objects owned by one context is a strict tree, so it   *)
(* is held as one nested value, `root`.  A DataObject is a record          *)
(*   [bytes, model, synced, converter, ModelInterface, bit_size]           *)
(* and a DataModel is a record [kind, synced, value, items].  Python's     *)
(* None is the empty tuple and a present value x is the 1-tuple <<x>>.     *)
(* The methods are operators that take the object and return the object    *)
(* as the call leaves it together with what the call returned or raised.   *)
(***************************************************************************)
EXTENDS Integers, Sequences, FiniteSets, TLC

\* How many calls that edit the tree (a setter, set_model, set_bytes) one run makes.
MaxEdits == 1

\* How many children a model node under test holds at most.
MaxItems == 2

\* How many contexts are created from one factory.
MaxSessions == 2

None == <<>>
Some(x) == <<x>>

(***************************************************************************)
(* DataModel                                                               *)
(***************************************************************************)
\* ValueModel.__init__: a value and no children; DataModel.__init__ marks it synced.
ValueModel(v) == [kind |-> "Value", synced |-> TRUE, value |-> v, items |-> <<>>]

\* ArrayModel.__init__: a list of children (each a DataObject or None).
ArrayModel(items) == [kind |-> "Array", synced |-> TRUE, value |-> None, items |-> items]

\* ClassModel.__init__: the getters' values, in the order of the getters.
ClassModel(items) == [kind |-> "Class", synced |-> TRUE, value |-> None, items |-> items]

\* DataModel._set_synced
DataModel_set_synced(m, synced) == [m EXCEPT !.synced = synced]

\* ValueModel.set_value
ValueModel_set_value(m, v) == [m EXCEPT !.value = Some(v), !.synced = FALSE]

\* ArrayModel.__setitem__
ArrayModel_setitem(m, i, object) == [m EXCEPT !.synced = FALSE, !.items[i] = object]

\* DictModel.__init__: an OrderedDict, held as its keys and its values in order.
DictModel(keys, values) ==
    [kind |-> "Dict", synced |-> TRUE, value |-> None, items |-> values, keys |-> keys]

\* ValueModel.get_value
ValueModel_get_value(m) == m.value

\* DataModel.iterate of the three variants: the children in order.
DataModel_iterate(m) == m.items

\* A Python list index on a list of n items as a position 1..n, 0 if out of range.
ListIndex(n, index) ==
    LET i == IF index < 0 THEN n + index ELSE index
    IN  IF i >= 0 /\ i < n THEN i + 1 ELSE 0

\* The sequence without its item at position pos.
RemoveAt(seq, pos) == SubSeq(seq, 1, pos - 1) \o SubSeq(seq, pos + 1, Len(seq))

\* The methods of ArrayModel and DictModel.  The result is [model, err, ret].
\* ArrayModel.insert: list.insert clamps the index and never raises.
ArrayModel_insert(m, index, object) ==
    LET n == Len(m.items)
        i == IF index < 0 THEN n + index ELSE index
        at == IF i < 0 THEN 0 ELSE IF i > n THEN n ELSE i
    IN  [model |-> [m EXCEPT !.synced = FALSE,
                             !.items = SubSeq(@, 1, at) \o <<object>> \o SubSeq(@, at + 1, n)],
         err |-> "ok", ret |-> None]

ArrayModel_append(m, object) ==
    [model |-> [m EXCEPT !.synced = FALSE, !.items = Append(@, object)],
     err |-> "ok", ret |-> None]

\* ArrayModel.pop(index): `index` is None when the caller gives none, and
\* list.pop(None) raises TypeError.
ArrayModel_pop(m, index) ==
    IF index = None
    THEN [model |-> [m EXCEPT !.synced = FALSE], err |-> "TypeError", ret |-> None]
    ELSE LET pos == ListIndex(Len(m.items), index[1])
         IN  IF pos = 0
             THEN [model |-> [m EXCEPT !.synced = FALSE], err |-> "IndexError", ret |-> None]
             ELSE [model |-> [m EXCEPT !.synced = FALSE, !.items = RemoveAt(@, pos)],
                   err |-> "ok", ret |-> m.items[pos]]

ArrayModel_getitem(m, index) ==
    LET pos == ListIndex(Len(m.items), index)
    IN  IF pos = 0 THEN [model |-> m, err |-> "IndexError", ret |-> None]
        ELSE [model |-> m, err |-> "ok", ret |-> m.items[pos]]

ArrayModel_len(m) == [model |-> m, err |-> "ok", ret |-> Len(m.items)]

\* ArrayModel.__setitem__ with a Python index
ArrayModel_setitem_index(m, index, object) ==
    LET pos == ListIndex(Len(m.items), index)
    IN  IF pos = 0
        THEN [model |-> [m EXCEPT !.synced = FALSE], err |-> "IndexError", ret |-> None]
        ELSE [model |-> ArrayModel_setitem(m, pos, object), err |-> "ok", ret |-> None]

\* Variant: the flag is cleared once the item is gone.
ArrayModel_delitem_FlagLast(m, index) ==
    LET pos == ListIndex(Len(m.items), index)
    IN  IF pos = 0 THEN [model |-> m, err |-> "IndexError", ret |-> None]
        ELSE [model |-> [m EXCEPT !.synced = FALSE, !.items = RemoveAt(@, pos)],
              err |-> "ok", ret |-> None]

ArrayModel_delitem(m, index) ==
    LET pos == ListIndex(Len(m.items), index)
    IN  IF pos = 0
        THEN [model |-> [m EXCEPT !.synced = FALSE], err |-> "IndexError", ret |-> None]
        ELSE [model |-> [m EXCEPT !.synced = FALSE, !.items = RemoveAt(@, pos)],
              err |-> "ok", ret |-> None]

\* The position of a key in a DictModel, 0 if it is missing.
KeyIndex(m, key) ==
    IF \E i \in 1..Len(m.keys) : m.keys[i] = key
    THEN CHOOSE i \in 1..Len(m.keys) : m.keys[i] = key
    ELSE 0

DictModel_get(m, key) ==
    [model |-> m, err |-> "ok",
     ret |-> IF KeyIndex(m, key) = 0 THEN None ELSE m.items[KeyIndex(m, key)]]

DictModel_getitem(m, key) ==
    IF KeyIndex(m, key) = 0 THEN [model |-> m, err |-> "KeyError", ret |-> None]
    ELSE [model |-> m, err |-> "ok", ret |-> m.items[KeyIndex(m, key)]]

DictModel_len(m) == [model |-> m, err |-> "ok", ret |-> Len(m.keys)]

\* DictModel.__setitem__: a new key goes last, a known key keeps its place.
DictModel_setitem(m, key, value) ==
    LET pos == KeyIndex(m, key)
    IN  [model |-> IF pos = 0
                   THEN [m EXCEPT !.synced = FALSE, !.keys = Append(@, key),
                                  !.items = Append(@, value)]
                   ELSE [m EXCEPT !.synced = FALSE, !.items[pos] = value],
         err |-> "ok", ret |-> None]

DictModel_delitem(m, key) ==
    LET pos == KeyIndex(m, key)
    IN  IF pos = 0
        THEN [model |-> [m EXCEPT !.synced = FALSE], err |-> "KeyError", ret |-> None]
        ELSE [model |-> [m EXCEPT !.synced = FALSE, !.keys = RemoveAt(@, pos),
                                  !.items = RemoveAt(@, pos)],
              err |-> "ok", ret |-> None]

(***************************************************************************)
(* The registry and DataObject's constructors                              *)
(***************************************************************************)
\* The interfaces a converter is registered for (register_converter).  "Raw"
\* is an interface with no converter, as the header, sync marker and packets
\* interfaces are in example/xilinx_main.py.
converters_by_type == {"Rec", "Arr", "Val"}

\* BALIoCContext.create_converter: exact lookup, None when nothing is registered.
create_converter(Interface) == IF Interface \in converters_by_type THEN Interface ELSE "None"

\* DataObject.__init__ reached through create_packed
create_packed(bytes, ModelInterface) ==
    [bytes |-> Some(bytes), model |-> None, synced |-> TRUE,
     converter |-> create_converter(ModelInterface), ModelInterface |-> ModelInterface,
     bit_size |-> None]

is_unpacked(o) == o.model # None
is_packed(o) == o.bytes # None
is_convertible(o) == o.converter # "None"

(***************************************************************************)
(* The converters.  Conversion logic is supplied to bal from outside; the  *)
(* three converters here are the smallest set that builds a three-level    *)
(* tree (record -> array -> value) under the AbstractConverter contract:   *)
(* unpack slices the bytes into packed child objects, as                   *)
(* XilinxBitstreamConverter.unpack does, and pack joins child.pack() of    *)
(* the children in order, as XilinxBitstreamConverter.pack does.           *)
(***************************************************************************)
\* The values the "Val" converter can serialize.
ValRange == {0, 1}

\* AbstractConverter.unpack.  The result is [raised, model]; model = None
\* stands for a converter that returned something that is no DataModel.
\*   "Rec": a body and one trailer byte (fails on empty input);
\*   "Arr": one child per byte;
\*   "Val": the low bit of exactly one byte (the other bits are reserved and
\*          dropped, so byte 2 reads as 0); returns None on empty input.
Converter_unpack(Interface, data_bytes) ==
    CASE Interface = "Rec" ->
           IF Len(data_bytes) < 1 THEN [raised |-> TRUE, model |-> None]
           ELSE [raised |-> FALSE,
                 model |-> Some(ClassModel(<<
                     Some(create_packed(SubSeq(data_bytes, 1, Len(data_bytes) - 1), "Arr")),
                     Some(create_packed(SubSeq(data_bytes, Len(data_bytes), Len(data_bytes)),
                                        "Raw"))>>))]
      [] Interface = "Arr" ->
           [raised |-> FALSE,
            model |-> Some(ArrayModel([i \in 1..Len(data_bytes) |->
                                 Some(create_packed(<<data_bytes[i]>>, "Val"))]))]
      [] OTHER ->
           IF Len(data_bytes) = 0 THEN [raised |-> FALSE, model |-> None]
           ELSE IF Len(data_bytes) > 1 THEN [raised |-> TRUE, model |-> None]
           ELSE [raised |-> FALSE, model |-> Some(ValueModel(Some(data_bytes[1] % 2)))]

\* The kind of model a converter accepts (its isinstance assertion).
ConverterKind(Interface) ==
    CASE Interface = "Rec" -> "Class" [] Interface = "Arr" -> "Array" [] OTHER -> "Value"

(***************************************************************************)
(* DataObject.pack and the converters' pack, which call each other.  The   *)
(* results carry `err` ("ok", or the exception that left the call:         *)
(* "NoConverter" for DataObject's "No converter registered" ValueError,    *)
(* "ConverterError" for an exception of a converter's own, "InvalidModel"  *)
(* for set_model's ValueError) and `encs`: the objects whose converter's   *)
(* pack was invoked, as paths relative to the object pack was called on.   *)
(***************************************************************************)
RECURSIVE DataObject_pack(_)
RECURSIVE PackItems(_, _, _, _)

\* The loop of a container converter's pack over the children: child.pack()
\* in order; an exception of a child's pack leaves the loop and the
\* converter.  A None child raises in a record (None has no pack) and is
\* skipped in an array.
PackItems(items, i, skipNone, acc) ==
    IF i > Len(items) \/ acc.err # "ok" THEN acc
    ELSE IF items[i] = None
         THEN PackItems(items, i + 1, skipNone,
                [acc EXCEPT !.err = IF skipNone THEN "ok" ELSE "ConverterError"])
         ELSE LET r == DataObject_pack(items[i][1])
              IN  PackItems(items, i + 1, skipNone,
                     [items |-> [acc.items EXCEPT ![i] = Some(r.obj)],
                      err   |-> r.err,
                      bytes |-> IF r.err = "ok" THEN acc.bytes \o r.bytes[1] ELSE acc.bytes,
                      encs  |-> acc.encs \cup {<<i>> \o q : q \in r.encs}])

\* AbstractConverter.pack.  The result is [model, err, bytes, encs]: the
\* model with its children as the call left them, and the bytes returned.
Converter_pack(Interface, data_model) ==
    IF data_model.kind # ConverterKind(Interface)
         \/ (Interface = "Rec" /\ Len(data_model.items) # 2)
    THEN [model |-> data_model, err |-> "ConverterError", bytes |-> <<>>, encs |-> {}]
    ELSE IF Interface = "Val"
    THEN IF data_model.value # None /\ data_model.value[1] \in ValRange
         THEN [model |-> data_model, err |-> "ok",
               bytes |-> <<data_model.value[1]>>, encs |-> {}]
         ELSE [model |-> data_model, err |-> "ConverterError", bytes |-> <<>>, encs |-> {}]
    ELSE LET r == PackItems(data_model.items, 1, Interface = "Arr",
                     [items |-> data_model.items, err |-> "ok",
                      bytes |-> <<>>, encs |-> {}])
         IN  [model |-> [data_model EXCEPT !.items = r.items], err |-> r.err,
              bytes |-> r.bytes, encs |-> r.encs]

\* Whether the model of the object or of any object below it is unsynced.
RECURSIVE AnyDirty(_)
AnyDirty(o) ==
    /\ is_unpacked(o)
    /\ \/ ~o.model[1].synced
       \/ \E i \in 1..Len(o.model[1].items) :
              o.model[1].items[i] # None /\ AnyDirty(o.model[1].items[i][1])

\* Variants of pack's first test: without the synced shortcut, with a scan of
\* the models below, and with the converter test ahead of it.
PackIsNoop_NoShortcut(o) == ~is_unpacked(o)
PackIsNoop_Rescans(o) == ~is_unpacked(o) \/ (o.synced /\ is_packed(o) /\ ~AnyDirty(o))
PackIsNoop_ConverterFirst(o) ==
    is_convertible(o) /\ (~is_unpacked(o) \/ (o.synced /\ is_packed(o)))

\* Variant: having bytes is enough.
PackIsNoop_SyncedOrPacked(o) == ~is_unpacked(o) \/ o.synced \/ is_packed(o)

\* pack's first test: nothing to do for an object that was never unpacked or
\* that is marked synced and has bytes.
PackIsNoop(o) == ~is_unpacked(o) \/ (o.synced /\ is_packed(o))

\* Variant: the object is marked synced ahead of the converter call.
PackRaised_MarksSynced(o, model) == [o EXCEPT !.model = Some(model), !.synced = TRUE]

\* The object when converter.pack raised: the exception leaves pack before
\* any assignment, and the children are as the converter left them.
PackRaised(o, model) == [o EXCEPT !.model = Some(model)]

\* Variant: the bytes are stored and the flag is left as it was.
PackReturned_KeepsFlag(o, model, bytes) ==
    [o EXCEPT !.model = Some(model), !.bytes = Some(bytes)]

\* The object when converter.pack returned: the bytes are stored and the
\* object is marked synced.
PackReturned(o, model, bytes) ==
    [o EXCEPT !.model = Some(model), !.bytes = Some(bytes), !.synced = TRUE]

\* DataObject.pack.  The result is [obj, err, bytes, encs].
DataObject_pack(o) ==
    IF PackIsNoop(o)
    THEN [obj |-> o, err |-> "ok", bytes |-> o.bytes, encs |-> {}]
    ELSE IF ~is_convertible(o)
    THEN [obj |-> o, err |-> "NoConverter", bytes |-> None, encs |-> {}]
    ELSE LET r == Converter_pack(o.converter, o.model[1])
         IN  IF r.err # "ok"
             THEN [obj |-> PackRaised(o, r.model), err |-> r.err,
                   bytes |-> None, encs |-> {<<>>} \cup r.encs]
             ELSE [obj |-> PackReturned(o, r.model, r.bytes),
                   err |-> "ok", bytes |-> Some(r.bytes), encs |-> {<<>>} \cup r.encs]

(***************************************************************************)
(* DataObject's other methods                                              *)
(***************************************************************************)
\* Variant: the bytes are stored ahead of the test.
DataObject_set_bytes_StoresFirst(o, data_bytes) ==
    [obj |-> [o EXCEPT !.bytes = data_bytes, !.synced = FALSE],
     err |-> IF is_unpacked(o) THEN "ValueError" ELSE "ok"]

\* Variant: the flag is left as it was.
DataObject_set_bytes_KeepsFlag(o, data_bytes) ==
    IF is_unpacked(o) THEN [obj |-> o, err |-> "ValueError"]
    ELSE [obj |-> [o EXCEPT !.bytes = data_bytes], err |-> "ok"]

\* DataObject.set_bytes.  `data_bytes` is a 1-tuple holding a byte string, or
\* None for a caller that hands in Python's None: the argument is stored as
\* it is.  The result is [obj, err].
DataObject_set_bytes(o, data_bytes) ==
    IF is_unpacked(o) THEN [obj |-> o, err |-> "ValueError"]
    ELSE [obj |-> [o EXCEPT !.bytes = data_bytes, !.synced = FALSE], err |-> "ok"]

\* Variant: every incoming model is marked synced.
SetModelSynced_Always(o) == TRUE

\* The flag set_model gives the incoming model: synced when the object had
\* no model, unsynced when it replaces one.
SetModelSynced(o) == o.model = None

\* Variant: the argument is stored ahead of the test.
DataObject_set_model_StoresFirst(o, model) ==
    IF model = None THEN [obj |-> [o EXCEPT !.model = None], err |-> "InvalidModel"]
    ELSE [obj |-> [o EXCEPT !.model = Some(DataModel_set_synced(model[1], SetModelSynced(o)))],
          err |-> "ok"]

\* DataObject.set_model.  `model` is None or a 1-tuple holding a DataModel
\* (None stands for every argument that is not a DataModel instance).
DataObject_set_model(o, model) ==
    IF model = None THEN [obj |-> o, err |-> "InvalidModel"]
    ELSE [obj |-> [o EXCEPT !.model = Some(DataModel_set_synced(model[1], SetModelSynced(o)))],
          err |-> "ok"]

\* Variant: an object that has a converter is decoded again.
UnpackIsNoop_OnlyWithoutConverter(o) == is_unpacked(o) /\ ~is_convertible(o)

\* unpack's first test: nothing to do for an object that has a model.
UnpackIsNoop(o) == is_unpacked(o)

\* DataObject.unpack.  The result is [obj, err, model, decs]; decs is the
\* set of objects (relative paths) whose converter's unpack was invoked.  A
\* converter that is handed None for bytes raises (it slices its argument).
DataObject_unpack(o) ==
    IF UnpackIsNoop(o) THEN [obj |-> o, err |-> "ok", model |-> o.model, decs |-> {}]
    ELSE IF ~is_convertible(o)
    THEN [obj |-> o, err |-> "NoConverter", model |-> None, decs |-> {}]
    ELSE LET r == IF is_packed(o) THEN Converter_unpack(o.converter, o.bytes[1])
                  ELSE [raised |-> TRUE, model |-> None]
         IN  IF r.raised
             THEN [obj |-> o, err |-> "ConverterError", model |-> None, decs |-> {<<>>}]
             ELSE LET s == DataObject_set_model(o, r.model)
                  IN  [obj |-> s.obj, err |-> s.err,
                       model |-> IF s.err = "ok" THEN s.obj.model ELSE None,
                       decs |-> {<<>>}]

\* Variant: the object is unpacked and its children are left alone.
DataObject_unpack_all_Shallow(o) ==
    IF ~is_unpacked(o) /\ ~is_convertible(o) THEN [obj |-> o, err |-> "ok", decs |-> {}]
    ELSE LET u == DataObject_unpack(o)
         IN  [obj |-> u.obj, err |-> u.err, decs |-> u.decs]

RECURSIVE DataObject_unpack_all(_)
RECURSIVE UnpackAllItems(_, _, _)

\* The loop of unpack_all over the children, left where a child raises.
UnpackAllItems(items, i, acc) ==
    IF i > Len(items) \/ acc.err # "ok" THEN acc
    ELSE IF items[i] = None THEN UnpackAllItems(items, i + 1, acc)
    ELSE LET r == DataObject_unpack_all(items[i][1])
         IN  UnpackAllItems(items, i + 1,
                [items |-> [acc.items EXCEPT ![i] = Some(r.obj)], err |-> r.err,
                 decs |-> acc.decs \cup {<<i>> \o q : q \in r.decs}])

\* DataObject.unpack_all.  The result is [obj, err, decs].
DataObject_unpack_all(o) ==
    IF ~is_unpacked(o) /\ ~is_convertible(o) THEN [obj |-> o, err |-> "ok", decs |-> {}]
    ELSE LET u == DataObject_unpack(o)
         IN  IF u.err # "ok" THEN [obj |-> u.obj, err |-> u.err, decs |-> u.decs]
             ELSE LET r == UnpackAllItems(u.obj.model[1].items, 1,
                              [items |-> u.obj.model[1].items, err |-> "ok", decs |-> {}])
                  IN  [obj |-> [u.obj EXCEPT !.model[1].items = r.items], err |-> r.err,
                       decs |-> u.decs \cup r.decs]

RECURSIVE DataObject_synchronize(_, _)
RECURSIVE SynchronizeItems(_, _, _, _)

\* Variant: the loop is left at the first child that returns False.
SynchronizeItems_Break(items, i, force_desync, acc) ==
    IF i > Len(items) \/ ~acc.children_synced THEN acc
    ELSE IF items[i] = None THEN SynchronizeItems(items, i + 1, force_desync, acc)
    ELSE LET r == DataObject_synchronize(items[i][1], force_desync)
         IN  SynchronizeItems(items, i + 1, force_desync,
                [items |-> [acc.items EXCEPT ![i] = Some(r.obj)],
                 children_synced |-> acc.children_synced /\ r.ret])

\* The loop of synchronize over the children: every child that is not None
\* is synchronized, and children_synced records whether any returned False.
SynchronizeItems(items, i, force_desync, acc) ==
    IF i > Len(items) THEN acc
    ELSE IF items[i] = None THEN SynchronizeItems(items, i + 1, force_desync, acc)
    ELSE LET r == DataObject_synchronize(items[i][1], force_desync)
         IN  SynchronizeItems(items, i + 1, force_desync,
                [items |-> [acc.items EXCEPT ![i] = Some(r.obj)],
                 children_synced |-> acc.children_synced /\ r.ret])

\* Variant: the children's flags are left out.
SyncedFlag_OwnModelOnly(children_synced, model_synced, force_desync) ==
    model_synced /\ ~force_desync

\* The flag synchronize gives an unpacked object.
SyncedFlag(children_synced, model_synced, force_desync) ==
    children_synced /\ model_synced /\ ~force_desync

\* Variant: an unpacked object's model is marked clean once its flag is read.
DataObject_synchronize_CleansModel(o, force_desync) ==
    IF ~is_unpacked(o)
    THEN LET s == o.synced /\ ~force_desync
         IN  [obj |-> [o EXCEPT !.synced = s], ret |-> s]
    ELSE LET r == SynchronizeItems(o.model[1].items, 1, force_desync,
                     [items |-> o.model[1].items, children_synced |-> TRUE])
             s == SyncedFlag(r.children_synced, o.model[1].synced, force_desync)
         IN  [obj |-> [o EXCEPT !.model[1].items = r.items, !.model[1].synced = TRUE,
                                !.synced = s],
              ret |-> s]

\* DataObject.synchronize.  The result is [obj, ret].
DataObject_synchronize(o, force_desync) ==
    IF ~is_unpacked(o)
    THEN LET s == o.synced /\ ~force_desync
         IN  [obj |-> [o EXCEPT !.synced = s], ret |-> s]
    ELSE LET r == SynchronizeItems(o.model[1].items, 1, force_desync,
                     [items |-> o.model[1].items, children_synced |-> TRUE])
             s == SyncedFlag(r.children_synced, o.model[1].synced, force_desync)
         IN  [obj |-> [o EXCEPT !.model[1].items = r.items, !.synced = s], ret |-> s]

(***************************************************************************)
(* The factory and the context while the registry is being configured.     *)
(* A Python dict is a function on the keys it holds.  An implementation is *)
(* the name of its class and "None" is Python's None, as for `converter`.  *)
(* Dicts are objects: the factory's attributes hold them, and whoever is   *)
(* handed one holds a reference, written as the name of that attribute.    *)
(***************************************************************************)
\* dict.get(key): None when the key is missing.
dict_get(d, key) == IF key \in DOMAIN d THEN d[key] ELSE "None"

\* d[key] = value
dict_setitem(d, key, value) ==
    [k \in DOMAIN d \cup {key} |-> IF k = key THEN value ELSE d[k]]

\* BALIoCContextFactory.__init__: three empty dicts.
BALIoCContextFactory_init ==
    [converters |-> <<>>, analyzers |-> <<>>, modifiers |-> <<>>]

\* BALIoCContextFactory.register_converter / register_analyzer / register_modifier
register_converter(f, DataModelInterface, ConverterImplementation) ==
    [f EXCEPT !.converters = dict_setitem(@, DataModelInterface, ConverterImplementation)]

register_analyzer(f, AbstractAnalyzer, AnalyzerImplementation) ==
    [f EXCEPT !.analyzers = dict_setitem(@, AbstractAnalyzer, AnalyzerImplementation)]

register_modifier(f, AbstractModifier, ModifierImplementation) ==
    [f EXCEPT !.modifiers = dict_setitem(@, AbstractModifier, ModifierImplementation)]

\* Variant: the lookup falls back to the interface's ancestors.
RECURSIVE Lookup_Ancestors(_, _, _)
Lookup_Ancestors(d, mro, i) ==
    IF i > Len(mro) THEN "None"
    ELSE IF dict_get(d, mro[i]) # "None" THEN d[mro[i]]
    ELSE Lookup_Ancestors(d, mro, i + 1)

\* inspect.getmro of the classes used here:
\*   class A(ValueModel), class Concrete(A), class SubAnalyzer(Analyzer),
\*   class SubModifier(Modifier).
getmro(T) ==
    CASE T = "Concrete" -> <<"Concrete", "A", "ValueModel", "DataModel", "object">>
      [] T = "A" -> <<"A", "ValueModel", "DataModel", "object">>
      [] T = "SubAnalyzer" -> <<"SubAnalyzer", "Analyzer", "AbstractAnalyzer", "object">>
      [] T = "SubModifier" -> <<"SubModifier", "Modifier", "AbstractModifier", "object">>
      [] OTHER -> <<T, "object">>

\* Variant of the three lookups below.
Lookup_WithAncestors(d, Interface) == Lookup_Ancestors(d, getmro(Interface), 1)

\* BALIoCContext.create_converter / create_analyzer / create_modifier on the
\* dict the context holds: the implementation registered for exactly this
\* interface, None when there is none.
Lookup(d, Interface) == dict_get(d, Interface)

\* DataObject.__init__; a ModelInterface of "None" is Python's None.  The
\* result is [obj, err].
DataObject_init(converter, ModelInterface, model, bytes, bit_size) ==
    IF bytes = None /\ model = None THEN [obj |-> None, err |-> "ValueError"]
    ELSE IF ModelInterface = "None" THEN [obj |-> None, err |-> "ValueError"]
    ELSE [obj |-> Some([bytes |-> bytes, model |-> model, synced |-> TRUE,
                        converter |-> converter, ModelInterface |-> ModelInterface,
                        bit_size |-> bit_size]),
          err |-> "ok"]

\* DataObject.create_packed in a context whose converters dict is `converters`.
DataObject_create_packed(converters, bytes, ModelInterface) ==
    DataObject_init(Lookup(converters, ModelInterface), ModelInterface, None, Some(bytes),
                    None)

\* Variant: only the model's own class is looked up.
FirstRegistered_OwnClassOnly(converters, mro, i) ==
    IF Lookup(converters, mro[1]) # "None" THEN 1 ELSE 0

\* The loop of create_unpacked over the model's classes: the position of the
\* first one a converter is registered for, 0 if there is none.
RECURSIVE FirstRegistered(_, _, _)
FirstRegistered(converters, mro, i) ==
    IF i > Len(mro) THEN 0
    ELSE IF Lookup(converters, mro[i]) # "None" THEN i
    ELSE FirstRegistered(converters, mro, i + 1)

\* DataObject.create_unpacked; ModelType is type(model).
DataObject_create_unpacked(converters, ModelType, model, bit_size, bytes) ==
    LET mro == getmro(ModelType)
        i == FirstRegistered(converters, mro, 1)
    IN  DataObject_init(IF i = 0 THEN "None" ELSE Lookup(converters, mro[i]),
                        IF i = 0 THEN ModelType ELSE mro[i], model, bytes, bit_size)

\* XilinxContext.__init__: the context keeps the dicts it is handed and
\* creates its root packed against XilinxBitstream.
XilinxContext_init(dicts, converters, analyzers, modifiers, bytes) ==
    [converters |-> converters, analyzers |-> analyzers, modifiers |-> modifiers,
     bitstream |-> DataObject_create_packed(dicts[converters], bytes,
                                            "XilinxBitstream").obj[1]]

\* XilinxContextFactory.create: the context is handed the factory's dicts.
XilinxContextFactory_create(f, data) ==
    XilinxContext_init(f, "converters", "analyzers", "modifiers", data)

\* DataObject.get_bytes and get_model.  The result is [err, ret].
DataObject_get_bytes(o) ==
    IF ~is_packed(o) THEN [err |-> "ValueError", ret |-> None]
    ELSE [err |-> "ok", ret |-> o.bytes]

DataObject_get_model(o) ==
    IF ~is_unpacked(o) THEN [err |-> "ValueError", ret |-> None]
    ELSE [err |-> "ok", ret |-> o.model]

\* BALManager.register.  The result is [bals, err].
BALManager_register(bals, key, context_factory) ==
    IF key \in DOMAIN bals THEN [bals |-> bals, err |-> "ValueError"]
    ELSE [bals |-> dict_setitem(bals, key, context_factory), err |-> "ok"]

\* BALManager.get.  The result is [err, ret].
BALManager_get(bals, key) ==
    LET bal == dict_get(bals, key)
    IN  IF bal = "None" THEN [err |-> "ValueError", ret |-> None]
        ELSE [err |-> "ok", ret |-> Some(bal)]

(***************************************************************************)
(* VisualizerAnalyzer._traverse.  The node it builds for an object is the  *)
(* record [type, implementation, bit_size, unpacked, is_empty, valued,     *)
(* value, children]; `valued` says that the node has the key "value", and  *)
(* `children` is empty for a node without the key "children".  The result  *)
(* of the call is [obj, err, wrapper]: the object as the call left it      *)
(* (_traverse unpacks what it visits), what it raised, and the node.       *)
(***************************************************************************)
\* Variant: a declared size of 0 counts as none.
DataObject_get_bit_size_Truthy(o) ==
    IF o.bit_size # None /\ o.bit_size[1] # 0 THEN o.bit_size[1]
    ELSE IF ~is_packed(o) THEN 0
    ELSE Len(o.bytes[1]) * 8

\* DataObject.get_bit_size
DataObject_get_bit_size(o) ==
    IF o.bit_size # None THEN o.bit_size[1]
    ELSE IF ~is_packed(o) THEN 0
    ELSE Len(o.bytes[1]) * 8

\* DataObject.get_model_implementation: the class of the model, None without one.
DataObject_get_model_implementation(o) ==
    IF is_unpacked(o) THEN Some(o.model[1].kind) ELSE None

\* Variant: the loop is left after the first byte.
VisualizerAnalyzer_is_data_object_empty_FirstByte(o) ==
    Len(o.bytes[1]) = 0 \/ o.bytes[1][1] = 0

\* VisualizerAnalyzer._is_data_object_empty: every byte is zero.
VisualizerAnalyzer_is_data_object_empty(o) ==
    \A i \in 1..Len(o.bytes[1]) : o.bytes[1][i] = 0

\* The test _traverse makes on the scalar of a ValueModel, an int or None:
\* get_value() == "" or get_value() == 0.  None equals neither.
ValueIsEmpty(value) == value # None /\ value[1] = 0

\* Variant: a container needs a child to be empty.
ContainerIsEmpty_NeedsChild(children) ==
    Len(children) > 0 /\ \A i \in 1..Len(children) : children[i].is_empty

\* The test _traverse makes on the nodes of a container's children:
\* all([item["is_empty"] is True for item in wrapper["children"]]).
ContainerIsEmpty(children) == \A i \in 1..Len(children) : children[i].is_empty

RECURSIVE VisualizerAnalyzer_traverse(_)
RECURSIVE TraverseItems(_, _, _)
RECURSIVE TraverseItems_SkipsFailed(_, _, _)

\* Variant: a child whose walk raised is left out and the loop goes on.
TraverseItems_SkipsFailed(items, i, acc) ==
    IF i > Len(items) THEN acc
    ELSE IF items[i] = None THEN TraverseItems_SkipsFailed(items, i + 1, acc)
    ELSE LET r == VisualizerAnalyzer_traverse(items[i][1])
         IN  TraverseItems_SkipsFailed(items, i + 1,
                [items |-> [acc.items EXCEPT ![i] = Some(r.obj)], err |-> "ok",
                 children |-> IF r.err = "ok" THEN Append(acc.children, r.wrapper[1])
                              ELSE acc.children])

\* The list comprehension of _traverse over the children that are not None,
\* left where a child raises.
TraverseItems(items, i, acc) ==
    IF i > Len(items) \/ acc.err # "ok" THEN acc
    ELSE IF items[i] = None THEN TraverseItems(items, i + 1, acc)
    ELSE LET r == VisualizerAnalyzer_traverse(items[i][1])
         IN  TraverseItems(items, i + 1,
                [items |-> [acc.items EXCEPT ![i] = Some(r.obj)], err |-> r.err,
                 children |-> IF r.err = "ok" THEN Append(acc.children, r.wrapper[1])
                              ELSE acc.children])

VisualizerAnalyzer_traverse(data_object) ==
    LET wrapper == [type |-> data_object.ModelInterface,
                    implementation |-> DataObject_get_model_implementation(data_object),
                    bit_size |-> DataObject_get_bit_size(data_object),
                    unpacked |-> is_convertible(data_object) \/ is_unpacked(data_object),
                    is_empty |-> FALSE, valued |-> FALSE, value |-> None, children |-> <<>>]
    IN  IF ~is_convertible(data_object) /\ ~is_unpacked(data_object)
        THEN [obj |-> data_object, err |-> "ok",
              wrapper |-> Some([wrapper EXCEPT
                           !.is_empty = VisualizerAnalyzer_is_data_object_empty(data_object)])]
        ELSE LET u == DataObject_unpack(data_object)
             IN  IF u.err # "ok" THEN [obj |-> u.obj, err |-> u.err, wrapper |-> None]
                 ELSE LET data_model == u.obj.model[1]
                      IN  IF data_model.kind = "Value"
                          THEN [obj |-> u.obj, err |-> "ok",
                                wrapper |-> Some([wrapper EXCEPT
                                   !.valued = TRUE,
                                   !.value = ValueModel_get_value(data_model),
                                   !.is_empty = ValueIsEmpty(ValueModel_get_value(data_model))])]
                          ELSE IF data_model.kind \in {"Array", "Dict", "Class"}
                          THEN LET r == TraverseItems(DataModel_iterate(data_model), 1,
                                           [items |-> DataModel_iterate(data_model),
                                            err |-> "ok", children |-> <<>>])
                                   o == [u.obj EXCEPT !.model[1].items = r.items]
                               IN  IF r.err # "ok"
                                   THEN [obj |-> o, err |-> r.err, wrapper |-> None]
                                   ELSE [obj |-> o, err |-> "ok",
                                         wrapper |-> Some([wrapper EXCEPT
                                            !.children = r.children,
                                            !.is_empty = ContainerIsEmpty(r.children)])]
                          ELSE [obj |-> u.obj, err |-> "ValueError", wrapper |-> None]

(***************************************************************************)
(* The tree: objects are addressed by the path of child indices from the   *)
(* root, which is what holding a reference to the object amounts to.       *)
(***************************************************************************)
RECURSIVE Paths(_)
Paths(o) ==
    {<<>>} \cup
    (IF is_unpacked(o)
     THEN UNION {{<<i>> \o q : q \in Paths(o.model[1].items[i][1])} :
                    i \in {j \in 1..Len(o.model[1].items) : o.model[1].items[j] # None}}
     ELSE {})

RECURSIVE GetObj(_, _)
GetObj(o, p) == IF p = <<>> THEN o ELSE GetObj(o.model[1].items[Head(p)][1], Tail(p))

RECURSIVE SetObj(_, _, _)
SetObj(o, p, new) ==
    IF p = <<>> THEN new
    ELSE [o EXCEPT !.model[1].items[Head(p)] =
                       Some(SetObj(o.model[1].items[Head(p)][1], Tail(p), new))]

(***************************************************************************)
(* State                                                                   *)
(***************************************************************************)
VARIABLES
    root,      \* the context's root DataObject (XilinxContext._bitstream) and all it owns
    last,      \* the last call: what was called on which object, and what it returned
    orig,      \* the bytes the context was created from
    pristine,  \* no setter, set_model, set_bytes or forced desync has succeeded so far
    edits,     \* the number of editing calls made so far
    faithful   \* every byte string and model handed in so far is one the converters
               \* reproduce: encode(decode(b)) = b, and set_model gave a packed
               \* object the model its bytes decode to

\* The factory, a context it created and an object created in that context
\* (example/xilinx_main.py up to context_factory.create).
VARIABLES
    factory,   \* BALIoCContextFactory: _converters_by_type, _analyzers_by_type, _modifiers_by_type
    context,   \* the context create() returned, None before the call
    obj,       \* the DataObject last created in that context, None before that
    called     \* the last call on the factory, the context or obj, and what it returned

regvars == <<factory, context, obj, called>>

\* The manager of the factories.
VARIABLES
    manager,    \* BALManager._bals
    registered  \* for each key, the factory of the register call that returned

mgrvars == <<manager, registered>>

\* A model node on its own.
VARIABLES
    node       \* a ValueModel, an ArrayModel or a DictModel

\* Several contexts created from one configured factory.
VARIABLES
    objects,   \* the root DataObjects made so far; an object's identity is its place here
    sessions   \* the contexts made so far; a context holds the identity of its _bitstream

sessvars == <<objects, sessions>>

\* Everything but the tree of the context under edit.
libvars == <<regvars, mgrvars, node, sessvars>>

\* No call yet.
NoCall == [op |-> "none", arg |-> None, err |-> "ok", ret |-> None]

\* A factory just constructed, nothing created from it.
RegIdle ==
    /\ factory = BALIoCContextFactory_init
    /\ context = None
    /\ obj = None
    /\ called = NoCall

\* BALManager.__init__
MgrIdle == manager = <<>> /\ registered = <<>>

\* No node under test.
NodeIdle == node = None

\* No context created yet.
SessIdle == objects = <<>> /\ sessions = <<>>

LibIdle == RegIdle /\ MgrIdle /\ NodeIdle /\ SessIdle

vars == <<root, last, orig, pristine, edits, faithful, libvars>>

\* A byte string the converters reproduce: no reserved bits set.
Canonical(data_bytes) == \A i \in 1..Len(data_bytes) : data_bytes[i] \in ValRange

\* The record of a call: the method, the object, what it raised ("ok" if it
\* returned), what it returned (bytes, model or ret), the converters it
\* invoked, and whether the call before it was the same method on the same object.
Call(op, path) ==
    [op |-> op, path |-> path, err |-> "ok", bytes |-> None, model |-> None,
     ret |-> TRUE, wrapper |-> None, encs |-> {}, decs |-> {}, force |-> FALSE,
     again |-> last.op = op /\ last.path = path]

\* The models a caller hands to set_model; None is an argument that is no DataModel.
SetModelArgs == {None, Some(ValueModel(Some(1)))}

\* The values a caller hands to set_value; 2 is outside what "Val" serializes.
SetValueArgs == {1, 2}

\* The bytes a caller hands to set_bytes.
SetBytesArgs == {<<>>, <<1>>}

\* The bytes a context is created from; byte 2 has a reserved bit set.
CreateArgs == {<<>>, <<0, 0>>, <<2, 0>>}

\* XilinxContextFactory.create / XilinxContext.__init__: the root is created
\* packed from the instance's bytes against the root interface.
Init ==
    /\ orig \in CreateArgs
    /\ root = create_packed(orig, "Rec")
    /\ last = [op |-> "create", path |-> <<>>, err |-> "ok", bytes |-> None, model |-> None,
               ret |-> TRUE, wrapper |-> None, encs |-> {}, decs |-> {}, force |-> FALSE, again |-> FALSE]
    /\ pristine = TRUE
    /\ edits = 0
    /\ faithful = Canonical(orig)
    /\ LibIdle

Unpack(p) ==
    LET r == DataObject_unpack(GetObj(root, p))
    IN  /\ root' = SetObj(root, p, r.obj)
        /\ last' = [Call("unpack", p) EXCEPT !.err = r.err, !.model = r.model, !.decs = r.decs]
        /\ UNCHANGED <<orig, pristine, edits, faithful>>
        /\ UNCHANGED libvars

UnpackAll(p) ==
    LET r == DataObject_unpack_all(GetObj(root, p))
    IN  /\ root' = SetObj(root, p, r.obj)
        /\ last' = [Call("unpack_all", p) EXCEPT !.err = r.err, !.decs = r.decs]
        /\ UNCHANGED <<orig, pristine, edits, faithful>>
        /\ UNCHANGED libvars

Pack(p) ==
    LET r == DataObject_pack(GetObj(root, p))
    IN  /\ root' = SetObj(root, p, r.obj)
        /\ last' = [Call("pack", p) EXCEPT !.err = r.err, !.bytes = r.bytes, !.encs = r.encs]
        /\ UNCHANGED <<orig, pristine, edits, faithful>>
        /\ UNCHANGED libvars

Synchronize(p, force_desync) ==
    LET r == DataObject_synchronize(GetObj(root, p), force_desync)
    IN  /\ root' = SetObj(root, p, r.obj)
        /\ last' = [Call("synchronize", p) EXCEPT !.ret = r.ret, !.force = force_desync]
        /\ pristine' = (pristine /\ ~force_desync)
        /\ UNCHANGED <<orig, edits, faithful>>
        /\ UNCHANGED libvars

SetBytes(p, data_bytes) ==
    LET r == DataObject_set_bytes(GetObj(root, p), Some(data_bytes))
    IN  /\ root' = SetObj(root, p, r.obj)
        /\ last' = [Call("set_bytes", p) EXCEPT
                        !.err = r.err,
                        !.bytes = IF r.err = "ok" THEN Some(data_bytes) ELSE None]
        /\ pristine' = (pristine /\ r.err # "ok")
        /\ faithful' = (faithful /\ (r.err # "ok" \/ Canonical(data_bytes)))
        /\ edits < MaxEdits
        /\ edits' = edits + 1
        /\ UNCHANGED orig
        /\ UNCHANGED libvars

SetModel(p, model) ==
    LET o == GetObj(root, p)
        r == DataObject_set_model(o, model)
    IN  /\ root' = SetObj(root, p, r.obj)
        /\ last' = [Call("set_model", p) EXCEPT !.err = r.err]
        /\ pristine' = (pristine /\ r.err # "ok")
        /\ faithful' = (faithful /\ (r.err # "ok" \/ is_unpacked(o) \/ ~is_convertible(o)
                                          \/ Converter_unpack(o.converter, o.bytes[1]).model = model))
        /\ edits < MaxEdits
        /\ edits' = edits + 1
        /\ UNCHANGED orig
        /\ UNCHANGED libvars

\* get_model().set_value(v) on an unpacked object that holds a ValueModel
SetValue(p, v) ==
    LET o == GetObj(root, p)
    IN  /\ is_unpacked(o)
        /\ o.model[1].kind = "Value"
        /\ root' = SetObj(root, p, [o EXCEPT !.model[1] = ValueModel_set_value(@, v)])
        /\ last' = Call("set_value", p)
        /\ pristine' = FALSE
        /\ edits < MaxEdits
        /\ edits' = edits + 1
        /\ UNCHANGED <<orig, faithful>>
        /\ UNCHANGED libvars

\* get_model()[i] = None on an unpacked object that holds an ArrayModel
SetItem(p, i) ==
    LET o == GetObj(root, p)
    IN  /\ is_unpacked(o)
        /\ o.model[1].kind = "Array"
        /\ i \in 1..Len(o.model[1].items)
        /\ root' = SetObj(root, p, [o EXCEPT !.model[1] = ArrayModel_setitem(@, i, None)])
        /\ last' = Call("setitem", p)
        /\ pristine' = FALSE
        /\ edits < MaxEdits
        /\ edits' = edits + 1
        /\ UNCHANGED <<orig, faithful>>
        /\ UNCHANGED libvars

Next ==
    \/ \E p \in Paths(root) : Unpack(p)
    \/ \E p \in Paths(root) : UnpackAll(p)
    \/ \E p \in Paths(root) : Pack(p)
    \/ \E p \in Paths(root), f \in BOOLEAN : Synchronize(p, f)
    \/ \E p \in Paths(root), b \in SetBytesArgs : SetBytes(p, b)
    \/ \E p \in Paths(root), m \in SetModelArgs : SetModel(p, m)
    \/ \E p \in Paths(root), v \in SetValueArgs : SetValue(p, v)
    \/ \E p \in Paths(root), i \in {1, 2} : SetItem(p, i)

Spec == Init /\ [][Next]_vars

(***************************************************************************)
(* unpack_all on trees that hold objects without a converter above objects *)
(* with one: the root is created against an interface with or without a    *)
(* converter, and a caller gives an object a model that holds children.    *)
(***************************************************************************)
\* The container models a caller hands to set_model.
ContainerModels ==
    {Some(ArrayModel(<<Some(create_packed(<<1>>, "Val")), None,
                       Some(create_packed(<<0>>, "Raw"))>>)),
     Some(ClassModel(<<Some(create_packed(<<0, 1>>, "Arr")),
                       Some(create_packed(<<>>, "Val"))>>))}

InitUnpackAll ==
    /\ orig \in CreateArgs
    /\ root \in {create_packed(orig, "Rec"), create_packed(orig, "Raw")}
    /\ last = [op |-> "create", path |-> <<>>, err |-> "ok", bytes |-> None, model |-> None,
               ret |-> TRUE, wrapper |-> None, encs |-> {}, decs |-> {}, force |-> FALSE, again |-> FALSE]
    /\ pristine = TRUE
    /\ edits = 0
    /\ faithful = Canonical(orig)
    /\ LibIdle

NextUnpackAll ==
    \/ \E p \in Paths(root) : Unpack(p)
    \/ \E p \in Paths(root) : UnpackAll(p)
    \/ \E p \in Paths(root), m \in ContainerModels : SetModel(p, m)

SpecUnpackAll == InitUnpackAll /\ [][NextUnpackAll]_vars

(***************************************************************************)
(* Visualizing trees: _traverse on objects of a tree whose objects hold    *)
(* what the converters made and what a caller gave them.                   *)
(***************************************************************************)
\* The models a caller hands to set_model before the tree is visualized:
\* scalars None, 0 and 1, a DataModel of a class _traverse does not know, and
\* a DictModel that holds None and an object.
VisualizerModels ==
    {Some(ValueModel(None)), Some(ValueModel(Some(0))), Some(ValueModel(Some(1))),
     Some([ValueModel(None) EXCEPT !.kind = "Custom"]),
     Some(DictModel(<<"a", "b">>, <<None, Some(create_packed(<<0>>, "Raw"))>>))}

\* The bytes the visualized contexts are created from.
VisualizerCreateArgs == {<<0, 0>>, <<1, 0>>, <<0, 1>>}

\* The bytes a caller hands to set_bytes before the tree is visualized.
VisualizerBytes == {<<>>, <<0, 0>>, <<0, 1>>}

InitVisualizer ==
    /\ orig \in VisualizerCreateArgs
    /\ root = create_packed(orig, "Rec")
    /\ last = [op |-> "create", path |-> <<>>, err |-> "ok", bytes |-> None, model |-> None,
               ret |-> TRUE, wrapper |-> None, encs |-> {}, decs |-> {}, force |-> FALSE, again |-> FALSE]
    /\ pristine = TRUE
    /\ edits = 0
    /\ faithful = Canonical(orig)
    /\ LibIdle

\* VisualizerAnalyzer(context)._traverse(data_object)
Traverse(p) ==
    LET r == VisualizerAnalyzer_traverse(GetObj(root, p))
    IN  /\ root' = SetObj(root, p, r.obj)
        /\ last' = [Call("traverse", p) EXCEPT !.err = r.err, !.wrapper = r.wrapper]
        /\ UNCHANGED <<orig, pristine, edits, faithful>>
        /\ UNCHANGED libvars

NextVisualizer ==
    \/ \E p \in Paths(root) : Unpack(p)
    \/ \E p \in Paths(root), m \in VisualizerModels : SetModel(p, m)
    \/ \E p \in Paths(root), v \in ValRange : SetValue(p, v)
    \/ \E p \in Paths(root), b \in VisualizerBytes : SetBytes(p, b)
    \/ \E p \in Paths(root), i \in {1, 2} : SetItem(p, i)
    \/ \E p \in Paths(root) : Traverse(p)

SpecVisualizer == InitVisualizer /\ [][NextVisualizer]_vars

(***************************************************************************)
(* Configuring a factory, creating a context and objects in it             *)
(***************************************************************************)
\* What a caller registers: <<interface, implementation>>.
ConverterRegistrations ==
    {<<"XilinxBitstream", "XilinxBitstreamConverter">>,
     <<"A", "ConverterX">>, <<"A", "ConverterY">>, <<"Concrete", "ConverterX">>}
AnalyzerRegistrations == {<<"Analyzer", "VisualizerAnalyzer">>}
ModifierRegistrations == {<<"Modifier", "ModifierX">>}

\* The interfaces a caller asks a context for, and the classes of the models
\* and the interfaces it creates objects with.
ConverterRequests == {"XilinxBitstream", "A", "Concrete"}
AnalyzerRequests == {"Analyzer", "SubAnalyzer"}
ModifierRequests == {"Modifier", "SubModifier"}
ModelTypes == {"A", "Concrete"}

\* Everything but the factory, its context and the object created in it.
notregvars == <<root, last, orig, pristine, edits, faithful, mgrvars, node, sessvars>>

\* The tree of the other specification, at rest.
TreeIdle ==
    /\ orig = <<>>
    /\ root = create_packed(orig, "Rec")
    /\ last = [op |-> "create", path |-> <<>>, err |-> "ok", bytes |-> None, model |-> None,
               ret |-> TRUE, wrapper |-> None, encs |-> {}, decs |-> {}, force |-> FALSE, again |-> FALSE]
    /\ pristine = TRUE
    /\ edits = 0
    /\ faithful = TRUE

\* context_factory = XilinxContextFactory()
InitRegistry == RegIdle /\ TreeIdle /\ MgrIdle /\ NodeIdle /\ SessIdle

RegisterConverter(r) ==
    /\ factory' = register_converter(factory, r[1], r[2])
    /\ called' = [NoCall EXCEPT !.op = "register_converter", !.arg = r]
    /\ UNCHANGED <<context, obj, notregvars>>

RegisterAnalyzer(r) ==
    /\ factory' = register_analyzer(factory, r[1], r[2])
    /\ called' = [NoCall EXCEPT !.op = "register_analyzer", !.arg = r]
    /\ UNCHANGED <<context, obj, notregvars>>

RegisterModifier(r) ==
    /\ factory' = register_modifier(factory, r[1], r[2])
    /\ called' = [NoCall EXCEPT !.op = "register_modifier", !.arg = r]
    /\ UNCHANGED <<context, obj, notregvars>>

\* context = context_factory.create(data)
Create(data) ==
    /\ context = None
    /\ context' = Some(XilinxContextFactory_create(factory, data))
    /\ called' = [NoCall EXCEPT !.op = "create", !.arg = data]
    /\ UNCHANGED <<factory, obj, notregvars>>

\* context.create_converter(Interface), create_analyzer, create_modifier
CreateConverter(Interface) ==
    /\ context # None
    /\ called' = [NoCall EXCEPT !.op = "create_converter", !.arg = Interface,
                                !.ret = Lookup(factory[context[1].converters], Interface)]
    /\ UNCHANGED <<factory, context, obj, notregvars>>

CreateAnalyzer(Interface) ==
    /\ context # None
    /\ called' = [NoCall EXCEPT !.op = "create_analyzer", !.arg = Interface,
                                !.ret = Lookup(factory[context[1].analyzers], Interface)]
    /\ UNCHANGED <<factory, context, obj, notregvars>>

CreateModifier(Interface) ==
    /\ context # None
    /\ called' = [NoCall EXCEPT !.op = "create_modifier", !.arg = Interface,
                                !.ret = Lookup(factory[context[1].modifiers], Interface)]
    /\ UNCHANGED <<factory, context, obj, notregvars>>

\* obj = DataObject.create_packed(context, bytes, ModelInterface)
CreatePacked(bytes, ModelInterface) ==
    /\ context # None
    /\ LET r == DataObject_create_packed(factory[context[1].converters], bytes, ModelInterface)
       IN  /\ obj' = r.obj
           /\ called' = [NoCall EXCEPT !.op = "create_packed", !.arg = ModelInterface,
                                       !.err = r.err]
    /\ UNCHANGED <<factory, context, notregvars>>

\* obj = DataObject.create_unpacked(context, model, bytes=bytes), type(model) = ModelType
CreateUnpacked(ModelType, model, bytes) ==
    /\ context # None
    /\ LET r == DataObject_create_unpacked(factory[context[1].converters],
                                           ModelType, Some(model), None, bytes)
       IN  /\ obj' = r.obj
           /\ called' = [NoCall EXCEPT !.op = "create_unpacked", !.arg = ModelType,
                                       !.err = r.err]
    /\ UNCHANGED <<factory, context, notregvars>>

\* obj.get_bytes(), obj.get_model(), obj.set_bytes(data_bytes), obj.set_model(model)
GetBytes ==
    /\ obj # None
    /\ LET r == DataObject_get_bytes(obj[1])
       IN  called' = [NoCall EXCEPT !.op = "get_bytes", !.err = r.err, !.ret = r.ret]
    /\ UNCHANGED <<factory, context, obj, notregvars>>

GetModel ==
    /\ obj # None
    /\ LET r == DataObject_get_model(obj[1])
       IN  called' = [NoCall EXCEPT !.op = "get_model", !.err = r.err, !.ret = r.ret]
    /\ UNCHANGED <<factory, context, obj, notregvars>>

ObjSetBytes(data_bytes) ==
    /\ obj # None
    /\ LET r == DataObject_set_bytes(obj[1], data_bytes)
       IN  /\ obj' = Some(r.obj)
           /\ called' = [NoCall EXCEPT !.op = "set_bytes", !.arg = data_bytes, !.err = r.err]
    /\ UNCHANGED <<factory, context, notregvars>>

ObjSetModel(model) ==
    /\ obj # None
    /\ LET r == DataObject_set_model(obj[1], model)
       IN  /\ obj' = Some(r.obj)
           /\ called' = [NoCall EXCEPT !.op = "set_model", !.arg = model, !.err = r.err]
    /\ UNCHANGED <<factory, context, notregvars>>

NextRegistry ==
    \/ \E r \in ConverterRegistrations : RegisterConverter(r)
    \/ \E r \in AnalyzerRegistrations : RegisterAnalyzer(r)
    \/ \E r \in ModifierRegistrations : RegisterModifier(r)
    \/ \E data \in {<<0, 0>>} : Create(data)
    \/ \E I \in ConverterRequests : CreateConverter(I)
    \/ \E I \in AnalyzerRequests : CreateAnalyzer(I)
    \/ \E I \in ModifierRequests : CreateModifier(I)
    \/ \E I \in ModelTypes : CreatePacked(<<1>>, I)
    \/ \E T \in ModelTypes, b \in {None, Some(<<1>>)} : CreateUnpacked(T, ValueModel(Some(1)), b)
    \/ GetBytes
    \/ GetModel
    \/ \E b \in SetBytesArgs : ObjSetBytes(Some(b))
    \/ \E m \in SetModelArgs : ObjSetModel(m)

SpecRegistry == InitRegistry /\ [][NextRegistry]_vars

(***************************************************************************)
(* Registering factories with a manager and asking for them                *)
(***************************************************************************)
\* The keys and the factories a caller uses; "None" is Python's None, which
\* register takes as it takes any value.
ManagerKeys == {"xilinx", "altera", "lattice"}
ManagerFactories == {"XilinxContextFactory", "AlteraContextFactory", "None"}

\* Everything but the manager.
notmgrvars ==
    <<root, last, orig, pristine, edits, faithful, factory, context, obj, node, sessvars>>

\* manager = BALManager()
InitManager == MgrIdle /\ RegIdle /\ TreeIdle /\ NodeIdle /\ SessIdle

ManagerRegister(key, context_factory) ==
    LET r == BALManager_register(manager, key, context_factory)
    IN  /\ manager' = r.bals
        /\ registered' = IF r.err = "ok" /\ key \notin DOMAIN registered
                         THEN dict_setitem(registered, key, context_factory)
                         ELSE registered
        /\ called' = [NoCall EXCEPT !.op = "register", !.arg = <<key, context_factory>>,
                                    !.err = r.err]
        /\ UNCHANGED notmgrvars

ManagerGet(key) ==
    LET r == BALManager_get(manager, key)
    IN  /\ called' = [NoCall EXCEPT !.op = "get", !.arg = key, !.err = r.err, !.ret = r.ret]
        /\ UNCHANGED <<manager, registered, notmgrvars>>

NextManager ==
    \/ \E k \in ManagerKeys, f \in ManagerFactories : ManagerRegister(k, f)
    \/ \E k \in ManagerKeys : ManagerGet(k)

SpecManager == InitManager /\ [][NextManager]_vars

(***************************************************************************)
(* Calling the methods of one model node                                   *)
(***************************************************************************)
\* The children a caller puts into a node, the list indices and the keys it uses.
NodeChildren == {None, Some(create_packed(<<1>>, "Val"))}
NodeIndices == {-1, 0, 1, 3}
NodeKeys == {"a", "b"}

\* Everything but the node.
notnodevars ==
    <<root, last, orig, pristine, edits, faithful, factory, context, obj, mgrvars, sessvars>>

\* The node as its constructor leaves it.
InitNode ==
    /\ node \in {ValueModel(None), ValueModel(Some(1)),
                 ArrayModel(<<>>), ArrayModel(<<Some(create_packed(<<1>>, "Val"))>>),
                 DictModel(<<>>, <<>>), DictModel(<<"a">>, <<None>>)}
    /\ RegIdle /\ MgrIdle /\ TreeIdle /\ SessIdle

\* What a method call on the node leaves: the node and the record of the call.
NodeCall(op, arg, r) ==
    /\ node' = r.model
    /\ called' = [op |-> op, arg |-> arg, err |-> r.err, ret |-> r.ret]
    /\ UNCHANGED notnodevars

\* DataObject.set_model(node) on an object that has no model marks the node synced.
NodeAttach ==
    NodeCall("set_model", None,
             [model |-> DataObject_set_model(create_packed(<<0>>, "Raw"), Some(node)).obj.model[1],
              err |-> "ok", ret |-> None])

NodeSetValue(v) ==
    /\ node.kind = "Value"
    /\ NodeCall("set_value", v, [model |-> ValueModel_set_value(node, v), err |-> "ok", ret |-> None])

NodeGetValue ==
    /\ node.kind = "Value"
    /\ NodeCall("get_value", None, [model |-> node, err |-> "ok", ret |-> ValueModel_get_value(node)])

\* list(node.iterate()), and `for item in node`
NodeIterate ==
    NodeCall("iterate", None, [model |-> node, err |-> "ok", ret |-> DataModel_iterate(node)])

\* `object in node`, which Python answers through __iter__
NodeContains(object) ==
    /\ node.kind = "Array"
    /\ NodeCall("contains", object,
                [model |-> node, err |-> "ok",
                 ret |-> \E i \in 1..Len(DataModel_iterate(node)) : DataModel_iterate(node)[i] = object])

NodeInsert(index, object) ==
    /\ node.kind = "Array" /\ Len(node.items) < MaxItems
    /\ NodeCall("insert", index, ArrayModel_insert(node, index, object))

NodeAppend(object) ==
    /\ node.kind = "Array" /\ Len(node.items) < MaxItems
    /\ NodeCall("append", object, ArrayModel_append(node, object))

NodePop(index) ==
    /\ node.kind = "Array"
    /\ NodeCall("pop", index, ArrayModel_pop(node, index))

NodeGetItem(index) ==
    /\ node.kind = "Array"
    /\ NodeCall("getitem", index, ArrayModel_getitem(node, index))

NodeLen ==
    /\ node.kind = "Array"
    /\ NodeCall("len", None, ArrayModel_len(node))

NodeSetItem(index, object) ==
    /\ node.kind = "Array"
    /\ NodeCall("setitem", index, ArrayModel_setitem_index(node, index, object))

NodeDelItem(index) ==
    /\ node.kind = "Array"
    /\ NodeCall("delitem", index, ArrayModel_delitem(node, index))

NodeDictGet(key) ==
    /\ node.kind = "Dict"
    /\ NodeCall("dict_get", key, DictModel_get(node, key))

NodeDictGetItem(key) ==
    /\ node.kind = "Dict"
    /\ NodeCall("dict_getitem", key, DictModel_getitem(node, key))

NodeDictLen ==
    /\ node.kind = "Dict"
    /\ NodeCall("dict_len", None, DictModel_len(node))

NodeDictSetItem(key, value) ==
    /\ node.kind = "Dict"
    /\ KeyIndex(node, key) = 0 => Len(node.keys) < MaxItems
    /\ NodeCall("dict_setitem", key, DictModel_setitem(node, key, value))

NodeDictDelItem(key) ==
    /\ node.kind = "Dict"
    /\ NodeCall("dict_delitem", key, DictModel_delitem(node, key))

NextNode ==
    \/ NodeAttach
    \/ \E v \in ValRange : NodeSetValue(v)
    \/ NodeGetValue
    \/ NodeIterate
    \/ \E c \in NodeChildren : NodeContains(c)
    \/ \E i \in NodeIndices, c \in NodeChildren : NodeInsert(i, c)
    \/ \E c \in NodeChildren : NodeAppend(c)
    \/ \E i \in {None} \cup {Some(j) : j \in NodeIndices} : NodePop(i)
    \/ \E i \in NodeIndices : NodeGetItem(i)
    \/ NodeLen
    \/ \E i \in NodeIndices, c \in NodeChildren : NodeSetItem(i, c)
    \/ \E i \in NodeIndices : NodeDelItem(i)
    \/ \E k \in NodeKeys : NodeDictGet(k)
    \/ \E k \in NodeKeys : NodeDictGetItem(k)
    \/ NodeDictLen
    \/ \E k \in NodeKeys, c \in NodeChildren : NodeDictSetItem(k, c)
    \/ \E k \in NodeKeys : NodeDictDelItem(k)

SpecNode == InitNode /\ [][NextNode]_vars

(***************************************************************************)
(* Several contexts of one factory, each with its own tree                 *)
(***************************************************************************)
\* Variant: the root is kept in one place that all contexts share.
NewObject_Shared(objs, o) ==
    [objects |-> IF objs = <<>> THEN <<o>> ELSE [objs EXCEPT ![1] = o], id |-> 1]

\* DataObject(...) in create_packed makes a new object.  The result is
\* [objects, id]: the objects there are now and the identity of the new one.
NewObject(objs, o) == [objects |-> Append(objs, o), id |-> Len(objs) + 1]

\* XilinxContext.get_data: the identity of the context's root.
XilinxContext_get_data(ctx) == ctx.bitstream

\* Everything but the contexts and their trees.
notsessvars ==
    <<root, last, orig, pristine, edits, faithful, factory, context, obj, mgrvars, node>>

InitSessions == SessIdle /\ RegIdle /\ MgrIdle /\ NodeIdle /\ TreeIdle

\* context = context_factory.create(data): XilinxContext.__init__ creates the
\* root packed against the root interface and keeps it.
SessionCreate(data) ==
    /\ Len(sessions) < MaxSessions
    /\ LET n == NewObject(objects, create_packed(data, "Rec"))
       IN  /\ objects' = n.objects
           /\ sessions' = Append(sessions, [bitstream |-> n.id])
    /\ called' = [NoCall EXCEPT !.op = "create", !.arg = data]
    /\ UNCHANGED notsessvars

\* sessions[i].get_data()
SessionGetData(i) ==
    /\ called' = [NoCall EXCEPT !.op = "get_data", !.arg = i,
                                !.ret = XilinxContext_get_data(sessions[i])]
    /\ UNCHANGED <<objects, sessions, notsessvars>>

\* A method call on the object at path p of the tree of sessions[i].
SessionCall(op, i, p, r) ==
    /\ objects' = [objects EXCEPT ![XilinxContext_get_data(sessions[i])] = SetObj(@, p, r.obj)]
    /\ called' = [NoCall EXCEPT !.op = op, !.arg = <<i, p>>, !.err = r.err]
    /\ UNCHANGED <<sessions, notsessvars>>

SessionUnpackAll(i, p) ==
    LET r == DataObject_unpack_all(GetObj(objects[XilinxContext_get_data(sessions[i])], p))
    IN  SessionCall("unpack_all", i, p, r)

SessionPack(i, p) ==
    LET r == DataObject_pack(GetObj(objects[XilinxContext_get_data(sessions[i])], p))
    IN  SessionCall("pack", i, p, r)

SessionSynchronize(i, p, force_desync) ==
    LET r == DataObject_synchronize(GetObj(objects[XilinxContext_get_data(sessions[i])], p),
                                    force_desync)
    IN  SessionCall("synchronize", i, p, [obj |-> r.obj, err |-> "ok"])

\* get_model().set_value(v) on an unpacked object that holds a ValueModel
SessionSetValue(i, p, v) ==
    LET o == GetObj(objects[XilinxContext_get_data(sessions[i])], p)
    IN  /\ is_unpacked(o)
        /\ o.model[1].kind = "Value"
        /\ SessionCall("set_value", i, p,
                       [obj |-> [o EXCEPT !.model[1] = ValueModel_set_value(@, v)], err |-> "ok"])

NextSessions ==
    \/ \E data \in {<<0, 0>>} : SessionCreate(data)
    \/ \E i \in DOMAIN sessions : SessionGetData(i)
    \/ \E i \in DOMAIN sessions : SessionUnpackAll(i, <<>>)
    \/ \E i \in DOMAIN sessions : SessionPack(i, <<>>)
    \/ \E i \in DOMAIN sessions : SessionSynchronize(i, <<>>, FALSE)
    \/ \E i \in DOMAIN sessions :
          \E p \in Paths(objects[XilinxContext_get_data(sessions[i])]) : SessionSetValue(i, p, 1)

SpecSessions == InitSessions /\ [][NextSessions]_vars

(***************************************************************************)
(* Repacking a tree with siblings: the context is created from three       *)
(* bytes, so the array below the root holds two value objects.             *)
(***************************************************************************)
\* The bytes the repacked contexts are created from.
PackCreateArgs == {<<0, 1, 0>>}

InitPack ==
    /\ orig \in PackCreateArgs
    /\ root = create_packed(orig, "Rec")
    /\ last = [op |-> "create", path |-> <<>>, err |-> "ok", bytes |-> None, model |-> None,
               ret |-> TRUE, wrapper |-> None, encs |-> {}, decs |-> {}, force |-> FALSE, again |-> FALSE]
    /\ pristine = TRUE
    /\ edits = 0
    /\ faithful = Canonical(orig)
    /\ LibIdle

NextPack ==
    \/ \E p \in Paths(root) : Unpack(p)
    \/ \E p \in Paths(root) : UnpackAll(p)
    \/ \E p \in Paths(root) : Pack(p)
    \/ \E p \in Paths(root), f \in BOOLEAN : Synchronize(p, f)
    \/ \E p \in Paths(root), v \in SetValueArgs : SetValue(p, v)
    \/ \E p \in Paths(root), i \in {1, 2} : SetItem(p, i)

SpecPack == InitPack /\ [][NextPack]_vars

(***************************************************************************)
(* One DataObject made by its constructor, and every method called on it   *)
(***************************************************************************)
\* What a caller hands to DataObject(context, converter, ModelInterface,
\* model, bytes, bit_size): <<converter, ModelInterface>> pairs ("None" is
\* Python's None), models, byte strings and declared sizes.
ObjectInterfaces == {<<"Arr", "Arr">>, <<"None", "Raw">>, <<"Arr", "None">>}
ObjectModels ==
    {None, Some(ValueModel(Some(1))), Some(ArrayModel(<<Some(create_packed(<<2>>, "Val"))>>))}
ObjectBytes == {None, Some(<<>>), Some(<<0, 1>>)}
ObjectBitSizes == {None, Some(0), Some(4)}

InitObject == RegIdle /\ TreeIdle /\ MgrIdle /\ NodeIdle /\ SessIdle

\* obj = DataObject(context, converter, ModelInterface, model, bytes, bit_size)
Construct(converter, ModelInterface, model, bytes, bit_size) ==
    /\ obj = None
    /\ LET r == DataObject_init(converter, ModelInterface, model, bytes, bit_size)
       IN  /\ obj' = r.obj
           /\ called' = [NoCall EXCEPT
                            !.op = "DataObject",
                            !.arg = [ModelInterface |-> ModelInterface, model |-> model,
                                     bytes |-> bytes, bit_size |-> bit_size],
                            !.err = r.err]
    /\ UNCHANGED <<factory, context, notregvars>>

\* obj.unpack(), obj.unpack_all(), obj.pack(), obj.synchronize(force_desync)
ObjUnpack ==
    /\ obj # None
    /\ LET r == DataObject_unpack(obj[1])
       IN  /\ obj' = Some(r.obj)
           /\ called' = [NoCall EXCEPT !.op = "unpack", !.err = r.err, !.ret = r.model]
    /\ UNCHANGED <<factory, context, notregvars>>

ObjUnpackAll ==
    /\ obj # None
    /\ LET r == DataObject_unpack_all(obj[1])
       IN  /\ obj' = Some(r.obj)
           /\ called' = [NoCall EXCEPT !.op = "unpack_all", !.err = r.err]
    /\ UNCHANGED <<factory, context, notregvars>>

\* The call's record holds the bytes returned and the objects whose
\* converter's pack was invoked.
ObjPack ==
    /\ obj # None
    /\ LET r == DataObject_pack(obj[1])
       IN  /\ obj' = Some(r.obj)
           /\ called' = [NoCall EXCEPT !.op = "pack", !.err = r.err,
                                       !.ret = [bytes |-> r.bytes, encs |-> r.encs]]
    /\ UNCHANGED <<factory, context, notregvars>>

ObjSynchronize(force_desync) ==
    /\ obj # None
    /\ LET r == DataObject_synchronize(obj[1], force_desync)
       IN  /\ obj' = Some(r.obj)
           /\ called' = [NoCall EXCEPT !.op = "synchronize", !.arg = force_desync,
                                       !.ret = Some(r.ret)]
    /\ UNCHANGED <<factory, context, notregvars>>

\* obj.get_bit_size()
ObjGetBitSize ==
    /\ obj # None
    /\ called' = [NoCall EXCEPT !.op = "get_bit_size",
                                !.ret = Some(DataObject_get_bit_size(obj[1]))]
    /\ UNCHANGED <<factory, context, obj, notregvars>>

NextObject ==
    \/ \E i \in ObjectInterfaces, m \in ObjectModels, b \in ObjectBytes, s \in ObjectBitSizes :
          Construct(i[1], i[2], m, b, s)
    \/ GetBytes
    \/ GetModel
    \/ \E b \in {None} \cup {Some(x) : x \in SetBytesArgs} : ObjSetBytes(b)
    \/ \E m \in SetModelArgs : ObjSetModel(m)
    \/ ObjUnpack
    \/ ObjUnpackAll
    \/ ObjPack
    \/ \E f \in BOOLEAN : ObjSynchronize(f)
    \/ ObjGetBitSize

SpecObject == InitObject /\ [][NextObject]_vars

(***************************************************************************)
(* Vocabulary of the properties                                            *)
(***************************************************************************)
IsPrefix(q, p) == Len(q) <= Len(p) /\ SubSeq(p, 1, Len(q)) = q

\* The object's model has been mutated (its own flag is unsynced).
Dirty(o) == is_unpacked(o) /\ ~o.model[1].synced

\* The indices of the children of an unpacked object that are not None.
Children(o) == {i \in 1..Len(o.model[1].items) : o.model[1].items[i] # None}

\* The object as far as it is its own: everything but what its children hold.
Own(o) ==
    [bytes |-> o.bytes, synced |-> o.synced, converter |-> o.converter,
     ModelInterface |-> o.ModelInterface, bit_size |-> o.bit_size,
     model |-> IF is_unpacked(o)
               THEN Some([o.model[1] EXCEPT !.items = [i \in 1..Len(@) |-> @[i] # None]])
               ELSE None]

\* pack() of the object gets to its converter test and fails it.
NeedsConverter(o) == is_unpacked(o) /\ ~(o.synced /\ is_packed(o)) /\ ~is_convertible(o)

\* The node _traverse built and the nodes below it.
RECURSIVE Wrappers(_)
Wrappers(w) == {w} \cup UNION {Wrappers(w.children[i]) : i \in 1..Len(w.children)}

\* The node _traverse built for the object at path p below the object o it
\* was called on, w being the node of o: children that are None have no node.
RECURSIVE WrapperAt(_, _, _)
WrapperAt(w, o, p) ==
    IF p = <<>> THEN w
    ELSE LET items == o.model[1].items
             k == Cardinality({j \in 1..Head(p) : items[j] # None})
         IN  WrapperAt(w.children[k], items[Head(p)][1], Tail(p))

\* The object holds a model that is none of the four kinds _traverse knows.
UnknownKind(o) ==
    is_unpacked(o) /\ o.model[1].kind \notin {"Value", "Array", "Dict", "Class"}

\* The tree is unpacked as far as it has converters, every object has
\* bytes, every object that was never unpacked is marked synced, and the
\* model of the object at path q is the one dirty model.
OneMutation(o, q) ==
    /\ q \in Paths(o)
    /\ \A p \in Paths(o) :
          /\ is_packed(GetObj(o, p))
          /\ is_convertible(GetObj(o, p)) => is_unpacked(GetObj(o, p))
          /\ ~is_unpacked(GetObj(o, p)) => GetObj(o, p).synced
          /\ Dirty(GetObj(o, p)) <=> p = q

\* The k-th child of the object that is not None.
RECURSIVE NthChild(_, _, _)
NthChild(items, i, k) ==
    IF items[i] = None THEN NthChild(items, i + 1, k)
    ELSE IF k = 1 THEN items[i][1]
    ELSE NthChild(items, i + 1, k - 1)

\* Every byte of the object's buffer is zero.
AllZero(o) == \A i \in 1..Len(o.bytes[1]) : o.bytes[1][i] = 0

\* A model without the objects it holds: its class, scalar, keys, dirty flag
\* and which of its slots are filled.
ModelShell(m) == [m EXCEPT !.items = [i \in 1..Len(m.items) |-> m.items[i] # None]]

\* What the object's converter makes of its current model, None if it raises.
Encoding(o) ==
    LET r == Converter_pack(o.converter, o.model[1])
    IN  IF r.err = "ok" THEN Some(r.bytes) ELSE None

C2_DirtyPropagation ==
    (last.op = "synchronize" /\ ~last.force)
        => \A p \in Paths(root) :
              (IsPrefix(last.path, p) /\ Dirty(GetObj(root, p)))
                  => /\ ~last.ret
                     /\ \A n \in Len(last.path)..Len(p) : ~GetObj(root, SubSeq(p, 1, n)).synced

\* synchronize() on the root of the three-level tree record -> array -> value
\* after set_value on the leaf.
C2_Witness ==
    /\ last.op = "synchronize" /\ ~last.force /\ last.path = <<>> /\ ~last.ret
    /\ <<1, 1>> \in Paths(root)
    /\ GetObj(root, <<1, 1>>).model # None
    /\ GetObj(root, <<1, 1>>).model[1].kind = "Value"
    /\ Dirty(GetObj(root, <<1, 1>>))
    /\ ~Dirty(root) /\ ~Dirty(GetObj(root, <<1>>))
    /\ ~root.synced /\ ~GetObj(root, <<1>>).synced /\ ~GetObj(root, <<1, 1>>).synced

(***************************************************************************)
(* C3  pack() does not re-scan.  A setter changes no object's bytes or     *)
(* synced flag, and pack() on an object that is unpacked, packed and       *)
(* marked synced invokes no converter, returns the stored bytes and        *)
(* changes nothing, whatever has been mutated below it.                    *)
(***************************************************************************)
C3_PackTrustsFlag ==
    [][/\ (last'.op \in {"set_value", "setitem"})
            => \A p \in Paths(root') :
                  /\ GetObj(root', p).bytes = GetObj(root, p).bytes
                  /\ GetObj(root', p).synced = GetObj(root, p).synced
       /\ (/\ last'.op = "pack"
           /\ is_unpacked(GetObj(root, last'.path))
           /\ is_packed(GetObj(root, last'.path))
           /\ GetObj(root, last'.path).synced)
            => /\ last'.err = "ok"
               /\ last'.encs = {}
               /\ last'.bytes = GetObj(root, last'.path).bytes
               /\ root' = root]_vars

\* pack() on the root, still marked synced, while a descendant's model is dirty.
C3_Witness ==
    /\ last.op = "pack" /\ last.path = <<>> /\ last.err = "ok" /\ last.encs = {}
    /\ is_unpacked(root) /\ root.synced /\ last.bytes = Some(orig)
    /\ \E p \in Paths(root) : p # <<>> /\ Dirty(GetObj(root, p))

(***************************************************************************)
(* C4  Central invariant.  After synchronize() on the root, with faithful  *)
(* converters and inputs, every object that has bytes, a model and a       *)
(* converter and is marked synced holds the bytes its converter makes of   *)
(* its current model.                                                      *)
(***************************************************************************)
C4_CentralInvariant ==
    (last.op = "synchronize" /\ last.path = <<>> /\ ~last.force /\ faithful)
        => \A p \in Paths(root) :
              LET o == GetObj(root, p)
              IN  (is_packed(o) /\ is_unpacked(o) /\ is_convertible(o) /\ o.synced)
                      => Encoding(o) = o.bytes

(***************************************************************************)
(* C5  synchronize(force_desync) computes the flags bottom-up.  For every  *)
(* object at or below the one synchronized: a packed-only object keeps its *)
(* flag unless forced, which clears it; an unpacked object gets (every     *)
(* child that is not None is now synced) and (its model is clean) and not  *)
(* force_desync, whatever its flag was; the call returns the flag of the   *)
(* object it was called on; nothing else changes.                          *)
(***************************************************************************)
C5_SynchronizeBottomUp ==
    [][(last'.op = "synchronize")
        => /\ Paths(root') = Paths(root)
           /\ last'.ret = GetObj(root', last'.path).synced
           /\ \A p \in Paths(root) :
                LET pre == GetObj(root, p)
                    post == GetObj(root', p)
                IN  /\ [Own(post) EXCEPT !.synced = pre.synced] = Own(pre)
                    /\ ~IsPrefix(last'.path, p) => post.synced = pre.synced
                    /\ (IsPrefix(last'.path, p) /\ ~is_unpacked(pre))
                         => post.synced = (pre.synced /\ ~last'.force)
                    /\ (IsPrefix(last'.path, p) /\ is_unpacked(pre))
                         => post.synced =
                              (/\ \A i \in Children(pre) : GetObj(root', Append(p, i)).synced
                               /\ pre.model[1].synced
                               /\ ~last'.force)]_vars

\* synchronize() on an object whose first child reported False and whose
\* second child, an unpacked one, was still visited and is marked synced;
\* the packed-only grandchild kept its cleared flag.
C5_Witness ==
    /\ last.op = "synchronize" /\ ~last.force /\ last.path = <<>> /\ ~last.ret
    /\ is_unpacked(root) /\ Children(root) = {1, 2}
    /\ ~GetObj(root, <<1>>).synced
    /\ is_unpacked(GetObj(root, <<2>>)) /\ GetObj(root, <<2>>).synced
    /\ \E p \in Paths(root) : ~is_unpacked(GetObj(root, p)) /\ ~GetObj(root, p).synced

(***************************************************************************)
(* C6  pack() idempotence.  A pack() that directly follows a pack() of the *)
(* same object that returned invokes no converter, returns the bytes the   *)
(* first call returned and changes nothing.                                *)
(***************************************************************************)
C6_PackIdempotent ==
    [][(/\ last.op = "pack" /\ last.err = "ok"
        /\ last'.op = "pack" /\ last'.path = last.path)
        => /\ last'.err = "ok"
           /\ last'.encs = {}
           /\ last'.bytes = last.bytes
           /\ root' = root]_vars

\* The second of two pack() calls in a row on the unpacked root, whose bytes
\* are no longer those it was created from (a converter has packed it).
C6_Witness ==
    /\ last.op = "pack" /\ last.again /\ last.path = <<>> /\ last.err = "ok"
    /\ last.encs = {}
    /\ is_unpacked(root) /\ root.synced
    /\ root.bytes # Some(orig) /\ last.bytes = root.bytes

(***************************************************************************)
(* C7  unpack() idempotence.  unpack() on an object that has a model       *)
(* invokes no converter, returns the stored model and changes nothing      *)
(* (not the model's flag, not the bytes, not the synced flag); the first   *)
(* unpack() of a packed object invokes its converter once and returns the  *)
(* model it stores, and an unpack() directly after it returns that model.  *)
(***************************************************************************)
C7_UnpackIdempotent ==
    [][/\ (last'.op = "unpack" /\ is_unpacked(GetObj(root, last'.path)))
            => /\ last'.err = "ok"
               /\ last'.decs = {}
               /\ last'.model = GetObj(root, last'.path).model
               /\ root' = root
       /\ (last'.op = "unpack" /\ ~is_unpacked(GetObj(root, last'.path)) /\ last'.err = "ok")
            => /\ last'.decs = {<<>>}
               /\ last'.model = GetObj(root', last'.path).model
               /\ last'.model # None /\ last'.model[1].synced
               /\ GetObj(root', last'.path).bytes = GetObj(root, last'.path).bytes
               /\ GetObj(root', last'.path).synced = GetObj(root, last'.path).synced
       /\ (/\ last.op = "unpack" /\ last.err = "ok"
           /\ last'.op = "unpack" /\ last'.path = last.path)
            => last'.model = last.model]_vars

\* The second of two unpack() calls in a row on a convertible object.
C7_Witness ==
    /\ last.op = "unpack" /\ last.again /\ last.err = "ok" /\ last.decs = {}
    /\ is_convertible(GetObj(root, last.path))
    /\ last.model = GetObj(root, last.path).model
    /\ last.model[1].synced

(***************************************************************************)
(* C8  set_model's flag.  A set_model that succeeds stores the model       *)
(* marked synced exactly if the object had no model, and changes neither   *)
(* the object's bytes nor its synced flag; synchronize() directly after a  *)
(* set_model that replaced a model returns False and marks the object      *)
(* unsynced.                                                               *)
(***************************************************************************)
C8_SetModelFlag ==
    [][/\ (last'.op = "set_model" /\ last'.err = "ok")
            => LET pre == GetObj(root, last'.path)
                   post == GetObj(root', last'.path)
               IN  /\ is_unpacked(post)
                   /\ post.model[1].synced = ~is_unpacked(pre)
                   /\ post.synced = pre.synced
                   /\ post.bytes = pre.bytes
       /\ (/\ last.op = "set_model" /\ last.err = "ok"
           /\ Dirty(GetObj(root, last.path))
           /\ last'.op = "synchronize" /\ last'.path = last.path)
            => (~last'.ret /\ ~GetObj(root', last'.path).synced)]_vars

\* synchronize() on the root whose record model was replaced by set_model
\* (the run's one edit): the replacement is a dirty ValueModel.
C8_Witness ==
    /\ last.op = "synchronize" /\ last.path = <<>> /\ ~last.force /\ ~last.ret
    /\ edits = 1
    /\ is_unpacked(root) /\ root.model[1].kind = "Value" /\ Dirty(root)
    /\ ~root.synced

C13_RegistryResolution ==
    (called.op = "create_unpacked")
        => LET registry == factory[context[1].converters]
               mro == getmro(called.arg)
               hits == {i \in 1..Len(mro) : mro[i] \in DOMAIN registry}
           IN  /\ called.err = "ok" /\ obj # None
               /\ hits # {}
                    => \E i \in hits :
                          /\ \A j \in hits : i <= j
                          /\ obj[1].ModelInterface = mro[i]
                          /\ obj[1].converter = registry[mro[i]]
                          /\ is_convertible(obj[1])
               /\ hits = {}
                    => /\ obj[1].ModelInterface = called.arg
                       /\ ~is_convertible(obj[1])

\* A model of class Concrete, with a converter registered for its ancestor A
\* only: the object is declared against A and holds A's converter.
C13_Witness ==
    /\ called.op = "create_unpacked" /\ called.arg = "Concrete"
    /\ DOMAIN factory.converters = {"A"}
    /\ obj # None /\ obj[1].ModelInterface = "A" /\ obj[1].converter = "ConverterY"

(***************************************************************************)
(* C14  Exact lookup.  create_converter, create_analyzer and               *)
(* create_modifier raise nothing and return None for an interface nothing  *)
(* is registered for, whatever is registered for its ancestors; an object  *)
(* created packed against such an interface is not convertible.            *)
(***************************************************************************)
C14_ExactLookup ==
    /\ (called.op = "create_converter" /\ called.arg \notin DOMAIN factory[context[1].converters])
          => (called.err = "ok" /\ called.ret = "None")
    /\ (called.op = "create_analyzer" /\ called.arg \notin DOMAIN factory[context[1].analyzers])
          => (called.err = "ok" /\ called.ret = "None")
    /\ (called.op = "create_modifier" /\ called.arg \notin DOMAIN factory[context[1].modifiers])
          => (called.err = "ok" /\ called.ret = "None")
    /\ (called.op = "create_packed" /\ called.arg \notin DOMAIN factory[context[1].converters])
          => (called.err = "ok" /\ obj # None /\ ~is_convertible(obj[1]))

\* An object created packed against Concrete while only its ancestor A has a
\* converter.
C14_Witness ==
    /\ called.op = "create_packed" /\ called.arg = "Concrete"
    /\ "A" \in DOMAIN factory.converters /\ "Concrete" \notin DOMAIN factory.converters
    /\ obj # None /\ ~is_convertible(obj[1]) /\ obj[1].ModelInterface = "Concrete"

(***************************************************************************)
(* C16  Registry immutability after spawn.  Once a context exists, no call *)
(* changes what its create_converter, create_analyzer and create_modifier  *)
(* return for any interface.                                               *)
(***************************************************************************)
C16_RegistryImmutable ==
    [][(context # None /\ context' = context)
          => /\ \A I \in ConverterRequests :
                   Lookup(factory'[context[1].converters], I)
                       = Lookup(factory[context[1].converters], I)
             /\ \A I \in AnalyzerRequests :
                   Lookup(factory'[context[1].analyzers], I)
                       = Lookup(factory[context[1].analyzers], I)
             /\ \A I \in ModifierRequests :
                   Lookup(factory'[context[1].modifiers], I)
                       = Lookup(factory[context[1].modifiers], I)]_vars

(***************************************************************************)
(* C15  Manager uniqueness.  register(k, f) raises exactly when a register *)
(* call for k has returned before, and then leaves the mapping as it was;  *)
(* get(k) raises exactly when no register call for k has returned, and     *)
(* otherwise returns the factory that call was given.                      *)
(***************************************************************************)
C15_ManagerUniqueness ==
    [][/\ (called'.op = "register")
            => /\ called'.err # "ok" <=> called'.arg[1] \in DOMAIN registered
               /\ called'.err # "ok" => manager' = manager
       /\ (called'.op = "get")
            => /\ called'.err # "ok" <=> called'.arg \notin DOMAIN registered
               /\ called'.err = "ok" => called'.ret = Some(registered[called'.arg])]_vars

(***************************************************************************)
(* C17  Every mutation sets dirty.  After set_value on a ValueModel, after *)
(* an index-set, delete, insert, append or pop on an ArrayModel and after  *)
(* a key-set or delete on a DictModel the node's _synced flag is False,    *)
(* whether or not the call raised; get, index and key reads, len,          *)
(* contains and iterate leave the flag as it was.                          *)
(***************************************************************************)
C17_EveryMutationSetsDirty ==
    [][/\ (called'.op \in {"set_value", "setitem", "delitem", "insert", "append", "pop",
                           "dict_setitem", "dict_delitem"})
            => ~node'.synced
       /\ (called'.op \in {"get_value", "getitem", "len", "contains", "iterate",
                           "dict_get", "dict_getitem", "dict_len"})
            => node'.synced = node.synced]_vars

\* A delete that raised IndexError on an empty ArrayModel left it dirty.
C17_Witness ==
    /\ called.op = "delitem" /\ called.err = "IndexError"
    /\ node.kind = "Array" /\ node.items = <<>> /\ ~node.synced

(***************************************************************************)
(* C18  unpack_all() postcondition.  When unpack_all() on an object has    *)
(* returned, every object reachable from it through the children of        *)
(* unpacked models is unpacked, or has no model and no converter.  On an   *)
(* object that has no model and no converter the call raises nothing,      *)
(* invokes no converter and changes nothing; an object that has a model    *)
(* and no converter is descended into like any other.                      *)
(***************************************************************************)
C18_UnpackAllPostcondition ==
    [][(last'.op = "unpack_all")
          => /\ last'.err = "ok"
                  => \A p \in Paths(root') :
                        IsPrefix(last'.path, p)
                            => \/ is_unpacked(GetObj(root', p))
                               \/ ~is_convertible(GetObj(root', p))
             /\ (~is_unpacked(GetObj(root, last'.path))
                   /\ ~is_convertible(GetObj(root, last'.path)))
                  => (last'.err = "ok" /\ last'.decs = {} /\ root' = root)]_vars

\* unpack_all() on an object that has a model and no converter unpacked the
\* child below it, and left the child that has no converter packed.
C18_Witness ==
    /\ last.op = "unpack_all" /\ last.err = "ok" /\ last.path = <<>>
    /\ is_unpacked(root) /\ ~is_convertible(root)
    /\ last.decs = {<<1>>}
    /\ is_unpacked(GetObj(root, <<1>>)) /\ is_convertible(GetObj(root, <<1>>))
    /\ ~is_unpacked(GetObj(root, <<3>>)) /\ ~is_convertible(GetObj(root, <<3>>))

(***************************************************************************)
(* C19  Session Context root.  create(bytes) adds one context whose root   *)
(* is a new object that has the given bytes, no model, is marked synced    *)
(* and is declared against the root interface; a context's root is the     *)
(* same object for good, and get_data() returns it; a call on an object of *)
(* one context's tree leaves the trees of the other contexts as they were. *)
(***************************************************************************)
C19_SessionRoot ==
    [][/\ (called'.op = "create")
            => /\ Len(sessions') = Len(sessions) + 1
               /\ LET id == XilinxContext_get_data(sessions'[Len(sessions')])
                  IN  /\ objects'[id] = [bytes |-> Some(called'.arg), model |-> None,
                                         synced |-> TRUE, converter |-> "Rec",
                                         ModelInterface |-> "Rec", bit_size |-> None]
                      /\ \A j \in DOMAIN sessions : XilinxContext_get_data(sessions[j]) # id
       /\ \A j \in DOMAIN sessions :
             /\ sessions'[j] = sessions[j]
             /\ (called'.op = "get_data" /\ called'.arg = j)
                   => called'.ret = XilinxContext_get_data(sessions[j])
             /\ (called'.op \in {"unpack_all", "pack", "synchronize", "set_value"}
                   /\ called'.arg[1] # j)
                   => objects'[XilinxContext_get_data(sessions'[j])]
                          = objects[XilinxContext_get_data(sessions[j])]
             /\ (called'.op \in {"create", "get_data"})
                   => objects'[XilinxContext_get_data(sessions'[j])]
                          = objects[XilinxContext_get_data(sessions[j])]]_vars

\* Two contexts of one factory: the tree of the first was unpacked, edited,
\* synchronized and packed, and the root of the second is as create() made it.
C19_Witness ==
    /\ Len(sessions) = 2
    /\ called.op = "pack" /\ called.arg = <<1, <<>>>> /\ called.err = "ok"
    /\ objects[XilinxContext_get_data(sessions[1])].bytes = Some(<<1, 0>>)
    /\ objects[XilinxContext_get_data(sessions[2])] = create_packed(<<0, 0>>, "Rec")

(***************************************************************************)
(* C20  Value-node emptiness.  In what _traverse returns, the node of an   *)
(* object that holds a ValueModel has is_empty true exactly when the       *)
(* scalar is None or 0 (the scalars here are ints and None, which is what  *)
(* ValueModel's constructor takes).                                        *)
(***************************************************************************)
C20_ValueEmptiness ==
    (last.op = "traverse" /\ last.err = "ok")
        => \A w \in Wrappers(last.wrapper[1]) :
              w.valued => (w.is_empty <=> (w.value = None \/ w.value = Some(0)))

(***************************************************************************)
(* C21  Opaque-node emptiness.  The node _traverse returns for an object   *)
(* that has no converter and no model has unpacked false, no value and no  *)
(* children, and is_empty true exactly when every byte of the object's     *)
(* buffer is zero (so for an empty buffer); the object is left as it was,  *)
(* and no walk raises the no-converter error.                              *)
(***************************************************************************)
C21_OpaqueEmptiness ==
    [][(last'.op = "traverse")
          => /\ last'.err # "NoConverter"
             /\ (~is_convertible(GetObj(root, last'.path))
                   /\ ~is_unpacked(GetObj(root, last'.path)))
                  => (last'.err = "ok" /\ root' = root)
             /\ last'.err = "ok"
                  => \A p \in Paths(root') :
                        LET o == GetObj(root', p)
                            w == WrapperAt(last'.wrapper[1], GetObj(root', last'.path),
                                           SubSeq(p, Len(last'.path) + 1, Len(p)))
                        IN  (IsPrefix(last'.path, p) /\ ~is_convertible(o) /\ ~is_unpacked(o))
                                => /\ ~w.unpacked
                                   /\ w.is_empty <=> AllZero(o)
                                   /\ ~w.valued
                                   /\ w.children = <<>>
                                   /\ w.type = o.ModelInterface]_vars

\* A walk from the root reached an object without converter or model whose
\* bytes, given by set_bytes, are 00 01: its node is not empty.
C21_Witness ==
    /\ last.op = "traverse" /\ last.path = <<>> /\ last.err = "ok"
    /\ \E p \in Paths(root) :
          LET o == GetObj(root, p)
          IN  /\ ~is_convertible(o) /\ ~is_unpacked(o)
              /\ o.bytes = Some(<<0, 1>>)
              /\ ~WrapperAt(last.wrapper[1], root, p).is_empty
    /\ edits = 1

(***************************************************************************)
(* C22  Unknown-variant fault.  When an object at or below the one         *)
(* _traverse is called on holds a model that is no ValueModel, ArrayModel, *)
(* DictModel or ClassModel, the call raises and returns no node at all;    *)
(* it raises the "Unknown data object model" ValueError unless an unpack() *)
(* of the walk raised first; and that error is raised in no other case.    *)
(***************************************************************************)
C22_UnknownVariantFault ==
    [][(last'.op = "traverse")
          => LET below == {p \in Paths(root) : IsPrefix(last'.path, p)}
                 unknown == \E p \in below : UnknownKind(GetObj(root, p))
             IN  /\ unknown => (last'.err # "ok" /\ last'.wrapper = None)
                 /\ (unknown /\ DataObject_unpack_all(GetObj(root, last'.path)).err = "ok")
                      => last'.err = "ValueError"
                 /\ last'.err = "ValueError" => unknown]_vars

\* A walk from the root raised on a model of an unknown class two levels
\* down, after it had unpacked the root and the object in between.
C22_Witness ==
    /\ last.op = "traverse" /\ last.path = <<>> /\ last.err = "ValueError" /\ last.wrapper = None
    /\ <<1, 1>> \in Paths(root)
    /\ UnknownKind(GetObj(root, <<1, 1>>))
    /\ is_unpacked(root) /\ is_unpacked(GetObj(root, <<1>>))

(***************************************************************************)
(* C23  get_bit_size().  The constructor stores the bit_size it is given   *)
(* and no method changes it.  get_bit_size() returns it when one was       *)
(* given, 0 included; otherwise it returns 0 for an object without bytes   *)
(* and 8 times the length of the bytes the object holds now.               *)
(***************************************************************************)
C23_GetBitSize ==
    [][/\ (called'.op = "DataObject" /\ called'.err = "ok")
            => obj'[1].bit_size = called'.arg.bit_size
       /\ obj # None => obj'[1].bit_size = obj[1].bit_size
       /\ (called'.op = "get_bit_size")
            => called'.ret =
                 Some(IF obj[1].bit_size # None THEN obj[1].bit_size[1]
                      ELSE IF obj[1].bytes = None THEN 0
                      ELSE 8 * Len(obj[1].bytes[1]))]_vars

\* get_bit_size() returned the declared 0 on an object whose converter has
\* packed it into one byte (the byte of its child).
C23_Witness ==
    /\ called.op = "get_bit_size" /\ called.ret = Some(0)
    /\ obj # None /\ obj[1].bit_size = Some(0)
    /\ obj[1].bytes = Some(<<2>>) /\ is_unpacked(obj[1])

(***************************************************************************)
(* C24  Dirtiness is cleared by packing.  When pack() on the root has      *)
(* returned and has gone through the converter of every object whose model *)
(* is dirty (a synchronize() had marked them), and every object that was   *)
(* never unpacked is marked synced, then a synchronize() on the root       *)
(* directly after it returns True.                                         *)
(***************************************************************************)
C24_PackClearsDirty ==
    [][(/\ last.op = "pack" /\ last.path = <<>> /\ last.err = "ok"
        /\ \E p \in Paths(root) : Dirty(GetObj(root, p))
        /\ \A p \in Paths(root) :
              /\ Dirty(GetObj(root, p)) => p \in last.encs
              /\ ~is_unpacked(GetObj(root, p)) => GetObj(root, p).synced
        /\ last'.op = "synchronize" /\ last'.path = <<>> /\ ~last'.force)
          => last'.ret]_vars

C26_ContainerEmptiness ==
    [][(last'.op = "traverse" /\ last'.err = "ok")
          => \A p \in Paths(root') :
                LET o == GetObj(root', p)
                    w == WrapperAt(last'.wrapper[1], GetObj(root', last'.path),
                                   SubSeq(p, Len(last'.path) + 1, Len(p)))
                IN  (/\ IsPrefix(last'.path, p)
                     /\ is_unpacked(o)
                     /\ o.model[1].kind \in {"Array", "Dict", "Class"})
                        => /\ ~w.valued
                           /\ Len(w.children) = Cardinality(Children(o))
                           /\ \A k \in 1..Len(w.children) :
                                 LET c == NthChild(o.model[1].items, 1, k)
                                 IN  /\ w.children[k].type = c.ModelInterface
                                     /\ w.children[k].bit_size = DataObject_get_bit_size(c)
                           /\ w.is_empty <=> \A k \in 1..Len(w.children) :
                                                 w.children[k].is_empty]_vars

\* A walk from the root, a record: the array below it holds None only and is
\* empty, the trailer is 01, so the record is not empty.
C26_Witness ==
    /\ last.op = "traverse" /\ last.path = <<>> /\ last.err = "ok"
    /\ is_unpacked(root) /\ root.model[1].kind = "Class"
    /\ is_unpacked(GetObj(root, <<1>>))
    /\ GetObj(root, <<1>>).model[1].items = <<None>>
    /\ Len(last.wrapper[1].children) = 2
    /\ last.wrapper[1].children[1].children = <<>>
    /\ last.wrapper[1].children[1].is_empty
    /\ ~last.wrapper[1].children[2].is_empty
    /\ ~last.wrapper[1].is_empty

(***************************************************************************)
(* C27  ArrayModel.pop.  pop(index) with an index in range removes the     *)
(* item at the index and returns it, and pop() without index on a list     *)
(* that is not empty removes the last item and returns it; either way the  *)
(* list is one shorter and the node's _synced flag is False.               *)
(***************************************************************************)
C27_Pop ==
    [][(/\ called'.op = "pop"
        /\ node.items # <<>>
        /\ called'.arg # None => ListIndex(Len(node.items), called'.arg[1]) # 0)
          => LET pos == IF called'.arg = None THEN Len(node.items)
                        ELSE ListIndex(Len(node.items), called'.arg[1])
             IN  /\ called'.err = "ok"
                 /\ called'.ret = node.items[pos]
                 /\ node'.items = RemoveAt(node.items, pos)
                 /\ Len(node'.items) = Len(node.items) - 1
                 /\ ~node'.synced]_vars

(***************************************************************************)
(* C28  At least one representation.  The constructor raises exactly when  *)
(* it is given neither bytes nor a model, or no ModelInterface, and then   *)
(* there is no object; an object that was constructed, and every object    *)
(* below it, has bytes or a model after every set_bytes, set_model,        *)
(* unpack, unpack_all, pack and synchronize call, raised or returned,      *)
(* whatever the call was handed.                                           *)
(***************************************************************************)
C28_AtLeastOneRepresentation ==
    /\ (called.op = "DataObject")
          => /\ called.err # "ok"
                  <=> \/ called.arg.bytes = None /\ called.arg.model = None
                      \/ called.arg.ModelInterface = "None"
             /\ called.err # "ok" => obj = None
    /\ obj # None
          => \A p \in Paths(obj[1]) :
                is_packed(GetObj(obj[1], p)) \/ is_unpacked(GetObj(obj[1], p))

(***************************************************************************)
(* C29  Unpacked is permanent.  An object that has a model has one after   *)
(* every call, whatever the call was handed and whether it raised: the     *)
(* constructed object, and every object below it as long as the model      *)
(* above it is not replaced.  set_bytes() on an object that has a model    *)
(* raises, and the bytes of an object that has a model differ after a call *)
(* only when the call is a pack() that invoked the object's converter.     *)
(***************************************************************************)
C29_UnpackedPermanent ==
    [][obj # None
          => \A p \in Paths(obj[1]) :
                LET pre == GetObj(obj[1], p)
                IN  (/\ is_unpacked(pre)
                     /\ p = <<>> \/ ~(called'.op = "set_model" /\ called'.err = "ok"))
                        => /\ p \in Paths(obj'[1])
                           /\ is_unpacked(GetObj(obj'[1], p))
                           /\ (p = <<>> /\ called'.op = "set_bytes") => called'.err # "ok"
                           /\ GetObj(obj'[1], p).bytes # pre.bytes
                                => /\ called'.op = "pack"
                                   /\ p \in called'.ret.encs]_vars

\* set_bytes() raised on an object that has a model and whose bytes are
\* those its converter made of the model (no caller handed them in).
C29_Witness ==
    /\ called.op = "set_bytes" /\ called.err # "ok"
    /\ obj # None /\ is_unpacked(obj[1]) /\ obj[1].bytes = Some(<<2>>)

(***************************************************************************)
(* C30  The visualization walk is read-only with respect to bytes and sync *)
(* state.  Over a walk started on any object of the tree, raised or not:   *)
(* every object is still there with the bytes and the synced flag it had;  *)
(* a model that was present has the class, scalar, keys, slots and dirty   *)
(* flag it had; an object differs only in that it had bytes, a converter   *)
(* and no model and now has a clean model; and synchronize() on the object *)
(* the walk started on returns what it would have returned before.         *)
(***************************************************************************)
C30_WalkReadOnly ==
    [][last'.op = "traverse"
          => /\ \A p \in Paths(root) :
                   LET pre == GetObj(root, p)
                   IN  /\ p \in Paths(root')
                       /\ GetObj(root', p).bytes = pre.bytes
                       /\ GetObj(root', p).synced = pre.synced
                       /\ is_unpacked(pre)
                             => /\ is_unpacked(GetObj(root', p))
                                /\ ModelShell(GetObj(root', p).model[1])
                                      = ModelShell(pre.model[1])
                       /\ (is_unpacked(GetObj(root', p)) /\ ~is_unpacked(pre))
                             => /\ is_packed(pre) /\ is_convertible(pre)
                                /\ GetObj(root', p).model[1].synced
             /\ DataObject_synchronize(GetObj(root', last'.path), FALSE).ret
                   = DataObject_synchronize(GetObj(root, last'.path), FALSE).ret]_vars

(***************************************************************************)
(* C31  synchronize() without force_desync changes synced flags only.      *)
(* Over such a call on any object of the tree: the tree has the objects it *)
(* had; every object at or below the one called has the bytes, converter,  *)
(* interface, bit size and model (class, scalar, keys, slots, dirty flag)  *)
(* it had; every other object is as it was, flag included; a second call   *)
(* on the same object right away returns what the first returned and       *)
(* changes nothing; and when the call before was the same call on the same *)
(* object, this one returned what that one returned and changed nothing.   *)
(***************************************************************************)
C31_SynchronizeFrame ==
    [][(last'.op = "synchronize" /\ ~last'.force)
          => /\ \/ root' = root
                \/ /\ Paths(root') = Paths(root)
                   /\ \A p \in Paths(root) :
                         IF IsPrefix(last'.path, p)
                         THEN [Own(GetObj(root', p)) EXCEPT !.synced = TRUE]
                                 = [Own(GetObj(root, p)) EXCEPT !.synced = TRUE]
                         ELSE Own(GetObj(root', p)) = Own(GetObj(root, p))
             /\ LET second == DataObject_synchronize(GetObj(root', last'.path), FALSE)
                IN  /\ second.ret = last'.ret
                    /\ second.obj = GetObj(root', last'.path)
             /\ (last.op = "synchronize" /\ ~last.force /\ last.path = last'.path)
                   => (last'.ret = last.ret /\ root' = root)]_vars

\* synchronize() on the root, straight after a synchronize() on the root,
\* returned False: the leaf's model is dirty, and the root and the object in
\* between, which pack() had marked synced, are marked unsynced again.
C31_Witness ==
    /\ last.op = "synchronize" /\ ~last.force /\ last.path = <<>> /\ last.again
    /\ ~last.ret /\ ~root.synced
    /\ <<1, 1>> \in Paths(root)
    /\ Dirty(GetObj(root, <<1, 1>>))
    /\ ~GetObj(root, <<1>>).synced
    /\ is_packed(root) /\ root.bytes # Some(orig)

====
